---- MODULE Spec2Model ----
(***************************************************************************)
(* A model of the jma crate: the area hierarchy of src/src/area.rs (five   *)
(* level tables, point lookup, parent and ancestor resolution, search) and *)
(* the AMeDAS observations of src/src/amedas.rs (the observation URL, the   *)
(* latest reading, the display labels, the station's update), and the      *)
(* forecast of src/src/forecast.rs.                                        *)
(*                                                                         *)
(* A Rust String is a sequence of one-character strings, Option<T> is a    *)
(* record with a `some` flag, and a HashMap<String, T> is a function whose *)
(* DOMAIN is the set of its keys.  `fetched` is a history variable: the    *)
(* last observation document that arrived, with the request it answered.   *)
(***************************************************************************)
EXTENDS Integers, Sequences, FiniteSets, TLC

VARIABLES centers, offices, class10s, class15s, class20s, iter, amedas, json,
          fetched, forecast_area, call, ret

vars == <<centers, offices, class10s, class15s, class20s, iter, amedas, json,
          fetched, forecast_area, call, ret>>

\* A walk of Areas::ancestor is followed for at most MaxWalk parent calls.
MaxWalk == 6

\* A loaded document holds at most MaxAreas records over its five levels.
MaxAreas == 2

tables == <<centers, offices, class10s, class15s, class20s>>

-----------------------------------------------------------------------------
(* Option<T> *)

None == [some |-> FALSE]

Some(x) == [some |-> TRUE, v |-> x]

-----------------------------------------------------------------------------
(* enum JmaAreaClass, in declaration order *)

ClassOrder == <<"Center", "Office", "Class10", "Class15", "Class20">>

JmaAreaClass == {ClassOrder[i] : i \in DOMAIN ClassOrder}

Level(class) == CHOOSE i \in DOMAIN ClassOrder : ClassOrder[i] = class

ClassParent_self(class) ==
    CASE class = "Center" -> Some("Center")
      [] class = "Office" -> Some("Center")
      [] class = "Class10" -> Some("Office")
      [] class = "Class15" -> Some("Class10")
      [] class = "Class20" -> Some("Class15")

\* JmaAreaClass::parent
ClassParent(class) ==
    CASE class = "Center" -> None
      [] class = "Office" -> Some("Center")
      [] class = "Class10" -> Some("Office")
      [] class = "Class15" -> Some("Class10")
      [] class = "Class20" -> Some("Class15")

ClassChild_skip(class) ==
    CASE class = "Center" -> Some("Class10")
      [] class = "Office" -> Some("Class10")
      [] class = "Class10" -> Some("Class15")
      [] class = "Class15" -> Some("Class20")
      [] class = "Class20" -> None

\* JmaAreaClass::child
ClassChild(class) ==
    CASE class = "Center" -> Some("Office")
      [] class = "Office" -> Some("Class10")
      [] class = "Class10" -> Some("Class15")
      [] class = "Class15" -> Some("Class20")
      [] class = "Class20" -> None

-----------------------------------------------------------------------------
(* struct RawArea and struct Area.  kana, office_name and children are     *)
(* carried by clone() and read by no operation; they are left out.         *)

RawArea(name, en_name, parent) ==
    [name |-> name, en_name |-> en_name, parent |-> parent]

\* Area::new
NewArea(class, code, raw) == [area |-> raw, class |-> class, code |-> code]

-----------------------------------------------------------------------------
(* impl Areas *)

\* Areas::areas: the table of one level
areas(class) ==
    CASE class = "Center" -> centers
      [] class = "Office" -> offices
      [] class = "Class10" -> class10s
      [] class = "Class15" -> class15s
      [] class = "Class20" -> class20s

values_anylevel(class, code) ==
    IF \E c \in JmaAreaClass : code \in DOMAIN areas(c)
    THEN LET c == CHOOSE c \in JmaAreaClass : code \in DOMAIN areas(c)
         IN Some(NewArea(class, code, areas(c)[code]))
    ELSE None

\* Areas::values
values(class, code) ==
    LET cls == areas(class)
    IN IF code \in DOMAIN cls
       THEN Some(NewArea(class, code, cls[code]))
       ELSE None

parent_sameclass(area) ==
    IF ~area.area.parent.some
    THEN None
    ELSE values(area.class, area.area.parent.v)

\* Areas::parent
parent(area) ==
    IF ~area.area.parent.some
    THEN None
    ELSE LET class == ClassParent(area.class)
         IN IF class.some THEN values(class.v, area.area.parent.v) ELSE None

RECURSIVE AncestorLoop_last(_, _, _)
AncestorLoop_last(p, class, n) ==
    IF n > MaxWalk
    THEN [ret |-> None, calls |-> n, cut |-> TRUE]
    ELSE IF p.class = class
    THEN [ret |-> Some(p), calls |-> n, cut |-> FALSE]
    ELSE LET q == parent(p)
         IN IF q.some
            THEN AncestorLoop_last(q.v, class, n + 1)
            ELSE [ret |-> Some(p), calls |-> n + 1, cut |-> FALSE]

\* One pass of the loop of Areas::ancestor from record p, after n calls of
\* self.parent.  `cut` marks a walk still running after MaxWalk calls.
RECURSIVE AncestorLoop(_, _, _)
AncestorLoop(p, class, n) ==
    IF n > MaxWalk
    THEN [ret |-> None, calls |-> n, cut |-> TRUE]
    ELSE IF p.class = class
    THEN [ret |-> Some(p), calls |-> n, cut |-> FALSE]
    ELSE LET q == parent(p)
         IN IF q.some
            THEN AncestorLoop(q.v, class, n + 1)
            ELSE [ret |-> None, calls |-> n + 1, cut |-> FALSE]

ancestor_parentfirst(area, class) ==
    LET q == parent(area)
    IN IF q.some
       THEN AncestorLoop(q.v, class, 1)
       ELSE [ret |-> None, calls |-> 1, cut |-> FALSE]

ancestor_direct(area, class) ==
    IF area.class = class
    THEN [ret |-> Some(area), calls |-> 0, cut |-> FALSE]
    ELSE [ret |-> IF area.area.parent.some /\ Level(class) < Level(area.class)
                  THEN values(class, area.area.parent.v)
                  ELSE None,
          calls |-> 1, cut |-> FALSE]

\* Areas::ancestor
ancestor(area, class) == AncestorLoop(area, class, 0)

-----------------------------------------------------------------------------
(* str::to_lowercase and str::starts_with *)

LowerChar(ch) == IF ch = "A" THEN "a" ELSE IF ch = "B" THEN "b" ELSE ch

to_lowercase(s) == [i \in DOMAIN s |-> LowerChar(s[i])]

starts_with(s, prefix) ==
    /\ Len(prefix) <= Len(s)
    /\ SubSeq(s, 1, Len(prefix)) = prefix

\* result.push(self.values(&class, &key).unwrap()): unwrap panics on None
Push(result, found) ==
    IF result.panic \/ ~found.some
    THEN [panic |-> TRUE, list |-> result.list]
    ELSE [panic |-> FALSE, list |-> Append(result.list, found.v)]

\* the body of `for (key, value) in cls` in Areas::search
SearchEntry(result, class, key, keyword) ==
    LET value == areas(class)[key]
        r1 == IF key = keyword THEN Push(result, values(class, key)) ELSE result
        r2 == IF starts_with(value.name, to_lowercase(keyword))
              THEN Push(r1, values(class, key)) ELSE r1
        r3 == IF starts_with(to_lowercase(value.en_name), to_lowercase(keyword))
              THEN Push(r2, values(class, key)) ELSE r2
    IN r3

\* `for (key, value) in cls`, the keys in the map's iteration order
RECURSIVE SearchTable(_, _, _, _)
SearchTable(result, class, keys, keyword) ==
    IF keys = <<>>
    THEN result
    ELSE SearchTable(SearchEntry(result, class, Head(keys), keyword),
                     class, Tail(keys), keyword)

RECURSIVE SearchClasses_descending(_, _, _)
SearchClasses_descending(result, i, keyword) ==
    IF i > Len(ClassOrder)
    THEN result
    ELSE LET class == ClassOrder[Len(ClassOrder) + 1 - i]
         IN SearchClasses_descending(SearchTable(result, class, iter[class], keyword),
                                     i + 1, keyword)

\* `for class in [Center, Office, Class10, Class15, Class20]`
RECURSIVE SearchClasses(_, _, _)
SearchClasses(result, i, keyword) ==
    IF i > Len(ClassOrder)
    THEN result
    ELSE SearchClasses(SearchTable(result, ClassOrder[i], iter[ClassOrder[i]], keyword),
                       i + 1, keyword)

\* Areas::search
search(keyword) == SearchClasses([panic |-> FALSE, list |-> <<>>], 1, keyword)

\* Areas::search_class20s
search_class20s(keyword) ==
    SearchTable([panic |-> FALSE, list |-> <<>>], "Class20", iter["Class20"], keyword)

-----------------------------------------------------------------------------
(* The hierarchies and arguments the model draws from *)

Codes == {<<"1">>, <<"2">>}

Parents == {None} \cup {Some(c) : c \in Codes}

NavRaws == {RawArea(<<"a">>, <<"A">>, p) : p \in Parents}

Names == {<<"A", "b">>, <<"a">>, <<"1", "a">>}

EnNames == {<<"A", "b">>, <<"1">>}

SearchRaws == {RawArea(n, e, None) : n \in Names, e \in EnNames}

Keywords == {<<>>, <<"1">>, <<"2">>, <<"a">>, <<"A">>, <<"A", "b">>}

Slots == JmaAreaClass \X Codes

\* the table of one level of a document d, a function on a set of slots
TableOf(d, class) ==
    [code \in {s[2] : s \in {t \in DOMAIN d : t[1] = class}} |-> d[<<class, code>>]]

\* no call is in progress
Idle == [op |-> "idle"]

\* the sequences that list every element of the set S once
Orders(S) ==
    {o \in [1..Cardinality(S) -> S] : \A i, j \in DOMAIN o : o[i] = o[j] => i = j}

\* Areas::new: the five tables deserialised from a document d; each HashMap
\* gets some iteration order, which stays the same while the map is not
\* changed.
Loaded(d) ==
    /\ centers = TableOf(d, "Center")
    /\ offices = TableOf(d, "Office")
    /\ class10s = TableOf(d, "Class10")
    /\ class15s = TableOf(d, "Class15")
    /\ class20s = TableOf(d, "Class20")
    /\ \E oc \in Orders(DOMAIN TableOf(d, "Center")),
          oo \in Orders(DOMAIN TableOf(d, "Office")),
          o10 \in Orders(DOMAIN TableOf(d, "Class10")),
          o15 \in Orders(DOMAIN TableOf(d, "Class15")),
          o20 \in Orders(DOMAIN TableOf(d, "Class20")) :
            iter = [c \in JmaAreaClass |->
                       CASE c = "Center" -> oc
                         [] c = "Office" -> oo
                         [] c = "Class10" -> o10
                         [] c = "Class15" -> o15
                         [] c = "Class20" -> o20]
    /\ call = Idle
    /\ ret = None

\* the documents of at most MaxAreas records
Documents(raws) ==
    UNION {[S -> raws] : S \in {T \in SUBSET Slots : Cardinality(T) <= MaxAreas}}

\* the documents of any depth whose only code is "1"
ChainDocuments(raws) ==
    UNION {[S -> raws] : S \in SUBSET (JmaAreaClass \X {<<"1">>})}

\* no station, no forecast and no forecast_area.json has been fetched
Unfetched == amedas = None /\ json = None /\ fetched = None /\ forecast_area = None

Init ==
    /\ \E d \in Documents(NavRaws) \cup ChainDocuments(NavRaws) : Loaded(d)
    /\ Unfetched

InitSearch ==
    /\ \E d \in Documents(SearchRaws) : Loaded(d)
    /\ Unfetched

\* the records a caller can hold: Area::new is public
AreaArgs == {NewArea(c, k, r) : c \in JmaAreaClass, k \in Codes, r \in NavRaws}

-----------------------------------------------------------------------------
(* The calls.  Every method takes &self: the tables are not written. *)

Values ==
    \E class \in JmaAreaClass, code \in Codes :
        /\ call = Idle
        /\ call' = [op |-> "values", class |-> class, code |-> code]
        /\ ret' = values(class, code)
        /\ UNCHANGED <<tables, iter, amedas, json, fetched, forecast_area>>

AreasOf ==
    \E class \in JmaAreaClass :
        /\ call = Idle
        /\ call' = [op |-> "areas", class |-> class]
        /\ ret' = [table |-> areas(class)]
        /\ UNCHANGED <<tables, iter, amedas, json, fetched, forecast_area>>

Parent ==
    \E area \in AreaArgs :
        /\ call = Idle
        /\ call' = [op |-> "parent", area |-> area]
        /\ ret' = parent(area)
        /\ UNCHANGED <<tables, iter, amedas, json, fetched, forecast_area>>

Ancestor ==
    \E area \in AreaArgs, class \in JmaAreaClass :
        /\ call = Idle
        /\ call' = [op |-> "ancestor", area |-> area, class |-> class]
        /\ ret' = ancestor(area, class)
        /\ UNCHANGED <<tables, iter, amedas, json, fetched, forecast_area>>

Search_remove ==
    \E keyword \in Keywords :
        /\ call = Idle
        /\ call' = [op |-> "search", keyword |-> keyword]
        /\ ret' = search(keyword)
        /\ centers' = [k \in DOMAIN centers \ {keyword} |-> centers[k]]
        /\ UNCHANGED <<offices, class10s, class15s, class20s, iter, amedas, json, fetched, forecast_area>>

Search ==
    \E keyword \in Keywords :
        /\ call = Idle
        /\ call' = [op |-> "search", keyword |-> keyword]
        /\ ret' = search(keyword)
        /\ UNCHANGED <<tables, iter, amedas, json, fetched, forecast_area>>

SearchClass20s ==
    \E keyword \in Keywords :
        /\ call = Idle
        /\ call' = [op |-> "search_class20s", keyword |-> keyword]
        /\ ret' = search_class20s(keyword)
        /\ UNCHANGED <<tables, iter, amedas, json, fetched, forecast_area>>

ClassParentOf ==
    \E class \in JmaAreaClass :
        /\ call = Idle
        /\ call' = [op |-> "class_parent", class |-> class]
        /\ ret' = ClassParent(class)
        /\ UNCHANGED <<tables, iter, amedas, json, fetched, forecast_area>>

ClassChildOf ==
    \E class \in JmaAreaClass :
        /\ call = Idle
        /\ call' = [op |-> "class_child", class |-> class]
        /\ ret' = ClassChild(class)
        /\ UNCHANGED <<tables, iter, amedas, json, fetched, forecast_area>>

\* the result of the call c on the tables as they are now
Eval(c) ==
    CASE c.op = "values" -> values(c.class, c.code)
      [] c.op = "class_parent" -> ClassParent(c.class)
      [] c.op = "class_child" -> ClassChild(c.class)
      [] c.op = "areas" -> [table |-> areas(c.class)]
      [] c.op = "parent" -> parent(c.area)
      [] c.op = "ancestor" -> ancestor(c.area, c.class)
      [] c.op = "search" -> search(c.keyword)
      [] c.op = "search_class20s" -> search_class20s(c.keyword)

\* the caller repeats the call it made last, with the same arguments
Again ==
    /\ call # Idle
    /\ call' = call
    /\ ret' = Eval(call)
    /\ UNCHANGED <<tables, iter, amedas, json, fetched, forecast_area>>

\* the caller takes the result
Return ==
    /\ call # Idle
    /\ call' = Idle
    /\ ret' = None
    /\ UNCHANGED <<tables, iter, amedas, json, fetched, forecast_area>>

Next == Return \/ Again \/ Values \/ AreasOf \/ Parent \/ Ancestor \/ Search \/ SearchClass20s

Spec == Init /\ [][Next]_vars

NextSearch ==
    \/ Return \/ Again \/ Search \/ SearchClass20s
    \/ ClassParentOf \/ ClassChildOf

SpecSearch == InitSearch /\ [][NextSearch]_vars

-----------------------------------------------------------------------------
(* Properties of the area hierarchy *)

\* the table of a level, read off the struct's fields
TableAt(class) ==
    IF class = "Center" THEN centers
    ELSE IF class = "Office" THEN offices
    ELSE IF class = "Class10" THEN class10s
    ELSE IF class = "Class15" THEN class15s
    ELSE class20s

\* the class one level up; Center has none
OneUp(class) == ClassOrder[Level(class) - 1]

\* C1: values(class, code) returns a record iff code is a key of the table of
\* that class; the record carries that class, that code and the data of that
\* entry.  A code that is a key of another level only yields absent.
C1_ValuesExactLookup ==
    call.op = "values" =>
        /\ ret.some <=> call.code \in DOMAIN TableAt(call.class)
        /\ ret.some =>
            /\ ret.v.class = call.class
            /\ ret.v.code = call.code
            /\ ret.v.area = TableAt(call.class)[call.code]

C1_Witness ==
    /\ call.op = "values"
    /\ call.class = "Office"
    /\ call.code \notin DOMAIN offices
    /\ call.code \in DOMAIN class20s
    /\ ret = None

\* C2: parent(record) is absent at Center level (even with a parent code
\* set), absent when the parent code is unset, absent when the parent code is
\* no key of the table one level up, and otherwise it is the record of that
\* table under the parent code, of the class one level up.
C2_ParentResolvesOneLevelUp ==
    call.op = "parent" =>
        LET a == call.area
        IN /\ a.class = "Center" => ret = None
           /\ ~a.area.parent.some => ret = None
           /\ (a.class # "Center" /\ a.area.parent.some) =>
                LET up == OneUp(a.class)
                    code == a.area.parent.v
                IN IF code \in DOMAIN TableAt(up)
                   THEN ret = Some([area |-> TableAt(up)[code],
                                    class |-> up, code |-> code])
                   ELSE ret = None

C2_Witness ==
    /\ call.op = "parent"
    /\ call.area.class = "Center"
    /\ call.area.area.parent.some
    /\ call.area.area.parent.v \in DOMAIN centers
    /\ ret = None

\* C3: ancestor(r, r.class) returns r itself, unchanged, without any parent
\* resolution, also when r's code or parent code is not in the hierarchy.
C3_AncestorSameClassIsSelf ==
    (call.op = "ancestor" /\ call.class = call.area.class) =>
        /\ ret.ret = Some(call.area)
        /\ ret.calls = 0

C3_Witness ==
    /\ call.op = "ancestor"
    /\ call.class = call.area.class
    /\ call.area.code \notin DOMAIN TableAt(call.class)
    /\ call.area.area.parent.some
    /\ call.area.class # "Center"
    /\ call.area.area.parent.v \notin DOMAIN TableAt(OneUp(call.class))
    /\ ret.ret = Some(call.area)

\* C4: for a target class strictly above the record's level, ancestor returns
\* absent or a record of exactly the target class.
C4_AncestorAtTargetLevel ==
    (call.op = "ancestor" /\ Level(call.class) < Level(call.area.class)) =>
        (ret.ret.some => ret.ret.v.class = call.class)

C4_Witness ==
    /\ call.op = "ancestor"
    /\ call.area.class = "Class20"
    /\ call.class = "Office"
    /\ ret.ret.some
    /\ ret.ret.v.class = "Office"

\* C5: every walk of ancestor ends, also over cyclic or dangling parent
\* codes: it makes at most four parent resolutions, never more than the
\* level of the starting record allows, and it returns absent whenever the
\* target is strictly below the record's level.
C5_AncestorTerminates ==
    call.op = "ancestor" =>
        /\ ~ret.cut
        /\ ret.calls <= 4
        /\ ret.calls <= Level(call.area.class)
        /\ Level(call.class) > Level(call.area.class) => ret.ret = None

C5_Witness ==
    /\ call.op = "ancestor"
    /\ class10s # << >> /\ \A k \in DOMAIN class10s : class10s[k].parent = Some(k)
    /\ ret.calls = 4
    /\ ret.ret = None

\* the records a result holds
ResultSet(c, r) ==
    CASE c.op \in {"values", "parent"} -> IF r.some THEN {r.v} ELSE {}
      [] c.op = "ancestor" -> IF r.ret.some THEN {r.ret.v} ELSE {}
      [] c.op = "areas" -> {<<k, r.table[k]>> : k \in DOMAIN r.table}
      [] c.op \in {"search", "search_class20s"} -> {r.list[i] : i \in DOMAIN r.list}
      [] OTHER -> {}

\* C9: no call writes the five tables, and a call repeated with the same
\* arguments returns the same set of records.
C9_LookupsReadOnly ==
    [][/\ tables' = tables
       /\ (call' = call => ResultSet(call', ret') = ResultSet(call, ret))]_vars

C9_Witness ==
    /\ call.op = "search"
    /\ call.keyword \in DOMAIN centers
    /\ ret.list # << >>

-----------------------------------------------------------------------------
(* Properties of Areas::search *)

\* every record of the hierarchy, as values returns it
AllAreas ==
    UNION {{NewArea(c, k, TableAt(c)[k]) : k \in DOMAIN TableAt(c)} : c \in JmaAreaClass}

\* how often record a occurs in list
Count(list, a) == Cardinality({i \in DOMAIN list : list[i] = a})

\* the three criteria as the documentation states them
CodeMatch(a, keyword) == a.code = keyword

NameMatch(a, keyword) == starts_with(a.area.name, keyword)

EnNameMatch(a, keyword) ==
    starts_with(to_lowercase(a.area.en_name), to_lowercase(keyword))

Criteria(a, keyword) ==
    (IF CodeMatch(a, keyword) THEN 1 ELSE 0)
    + (IF NameMatch(a, keyword) THEN 1 ELSE 0)
    + (IF EnNameMatch(a, keyword) THEN 1 ELSE 0)

\* the name test as Areas::search makes it: against the lower-cased keyword
NameMatchLowered(a, keyword) == starts_with(a.area.name, to_lowercase(keyword))

CriteriaLowered(a, keyword) ==
    (IF CodeMatch(a, keyword) THEN 1 ELSE 0)
    + (IF NameMatchLowered(a, keyword) THEN 1 ELSE 0)
    + (IF EnNameMatch(a, keyword) THEN 1 ELSE 0)

\* C6: search(keyword) returns a record iff its code equals the keyword, or
\* its name starts with the keyword, or its lower-cased English name starts
\* with the lower-cased keyword; so search(code) of a code that is a key holds
\* an entry with that code, and exactly one entry when the code is the key of
\* one record and a prefix of no name.
C6_SearchCriteria ==
    call.op = "search" =>
        LET kw == call.keyword
            hits == {a \in AllAreas : a.code = kw}
        IN /\ ~ret.panic
           /\ \A a \in AllAreas : Count(ret.list, a) > 0 <=> Criteria(a, kw) > 0
           /\ hits # {} => \E i \in DOMAIN ret.list : ret.list[i].code = kw
           /\ (/\ Cardinality(hits) = 1
               /\ \A a \in AllAreas : /\ ~starts_with(a.area.name, kw)
                                      /\ ~starts_with(a.area.en_name, kw))
              => Len(ret.list) = 1

\* C7: a record occurs in the result of search once for each criterion it
\* matches, hence up to three times, and not at all when it matches none.
C7_SearchMultiplicity ==
    call.op = "search" =>
        \A a \in AllAreas : Count(ret.list, a) = Criteria(a, call.keyword)

\* C8: search never panics, and its result is empty exactly when no record
\* matches a criterion.
C8_SearchNeverFails ==
    call.op = "search" =>
        /\ ~ret.panic
        /\ ret.list = << >> <=> \A a \in AllAreas : Criteria(a, call.keyword) = 0

\* What search does hold of: C6 to C8 with the name compared against the
\* lower-cased keyword.
SearchAsCoded ==
    call.op = "search" =>
        /\ ~ret.panic
        /\ \A i \in DOMAIN ret.list : ret.list[i] \in AllAreas
        /\ \A a \in AllAreas : Count(ret.list, a) = CriteriaLowered(a, call.keyword)
        /\ ret.list = << >> <=> \A a \in AllAreas : CriteriaLowered(a, call.keyword) = 0

-----------------------------------------------------------------------------
(* create_amedas_url of src/src/amedas.rs.  chrono's DateTime<FixedOffset>  *)
(* keeps the UTC date and time and the offset; hour() and format() read the *)
(* local time, UTC plus offset.  A date is a day number, day 0 being        *)
(* 1970-01-01.                                                              *)

Digits == <<"0", "1", "2", "3", "4", "5", "6", "7", "8", "9">>

IsDigit(ch) == \E i \in DOMAIN Digits : Digits[i] = ch

DigitVal(ch) == (CHOOSE i \in DOMAIN Digits : Digits[i] = ch) - 1

\* the decimal digits of n >= 0
RECURSIVE Decimal(_)
Decimal(n) ==
    IF n < 10 THEN <<Digits[n + 1]>> ELSE Append(Decimal(n \div 10), Digits[(n % 10) + 1])

\* "{:0width}": zero-padded on the left to at least width characters
RECURSIVE ZeroPad(_, _)
ZeroPad(str, width) ==
    IF Len(str) >= width THEN str ELSE ZeroPad(<<"0">> \o str, width)

\* the number a string of digits writes
RECURSIVE Number(_)
Number(str) ==
    IF str = << >> THEN 0
    ELSE 10 * Number(SubSeq(str, 1, Len(str) - 1)) + DigitVal(str[Len(str)])

AllDigits(str) == \A i \in DOMAIN str : IsDigit(str[i])

IsLeap(y) == (y % 4 = 0 /\ y % 100 # 0) \/ y % 400 = 0

DaysInMonth(y, m) ==
    IF m = 2 THEN (IF IsLeap(y) THEN 29 ELSE 28)
    ELSE IF m \in {4, 6, 9, 11} THEN 30 ELSE 31

\* NaiveDate -> day number
DaysFromCivil(year, m, d) ==
    LET y == IF m <= 2 THEN year - 1 ELSE year
        era == y \div 400
        yoe == y - era * 400
        mp == (m + 9) % 12
        doy == ((153 * mp + 2) \div 5) + d - 1
        doe == yoe * 365 + (yoe \div 4) - (yoe \div 100) + doy
    IN era * 146097 + doe - 719468

\* day number -> NaiveDate
CivilFromDays(z) ==
    LET zz == z + 719468
        era == zz \div 146097
        doe == zz - era * 146097
        yoe == (doe - (doe \div 1460) + (doe \div 36524) - (doe \div 146096)) \div 365
        doy == doe - (365 * yoe + (yoe \div 4) - (yoe \div 100))
        mp == (5 * doy + 2) \div 153
        d == doy - ((153 * mp + 2) \div 5) + 1
        m == IF mp < 10 THEN mp + 3 ELSE mp - 9
    IN [year |-> IF m <= 2 THEN yoe + era * 400 + 1 ELSE yoe + era * 400,
        month |-> m, day |-> d]

\* the text after the seconds: an optional fraction, then the offset
RECURSIVE SkipDigits(_)
SkipDigits(str) ==
    IF str # << >> /\ IsDigit(Head(str)) THEN SkipDigits(Tail(str)) ELSE str

AfterFraction(rest) ==
    IF rest # << >> /\ Head(rest) = "."
    THEN IF Len(rest) >= 2 /\ IsDigit(rest[2]) THEN SkipDigits(Tail(rest)) ELSE <<"?">>
    ELSE rest

\* the offset in seconds, or absent
ParseOffset(z) ==
    IF z \in {<<"Z">>, <<"z">>} THEN Some(0)
    ELSE IF /\ Len(z) = 6
            /\ z[1] \in {"+", "-"}
            /\ AllDigits(SubSeq(z, 2, 3))
            /\ z[4] = ":"
            /\ AllDigits(SubSeq(z, 5, 6))
            /\ Number(SubSeq(z, 2, 3)) <= 23
            /\ Number(SubSeq(z, 5, 6)) <= 59
    THEN Some((IF z[1] = "-" THEN -1 ELSE 1)
              * (Number(SubSeq(z, 2, 3)) * 3600 + Number(SubSeq(z, 5, 6)) * 60))
    ELSE None

\* DateTime::parse_from_rfc3339
parse_from_rfc3339(str) ==
    IF ~(/\ Len(str) >= 20
         /\ AllDigits(SubSeq(str, 1, 4)) /\ str[5] = "-"
         /\ AllDigits(SubSeq(str, 6, 7)) /\ str[8] = "-"
         /\ AllDigits(SubSeq(str, 9, 10)) /\ str[11] \in {"T", "t", " "}
         /\ AllDigits(SubSeq(str, 12, 13)) /\ str[14] = ":"
         /\ AllDigits(SubSeq(str, 15, 16)) /\ str[17] = ":"
         /\ AllDigits(SubSeq(str, 18, 19)))
    THEN [ok |-> FALSE]
    ELSE LET year == Number(SubSeq(str, 1, 4))
             month == Number(SubSeq(str, 6, 7))
             day == Number(SubSeq(str, 9, 10))
             hour == Number(SubSeq(str, 12, 13))
             minute == Number(SubSeq(str, 15, 16))
             second == Number(SubSeq(str, 18, 19))
             offset == ParseOffset(AfterFraction(SubSeq(str, 20, Len(str))))
         IN IF ~(/\ month \in 1..12
                 /\ day \in 1..DaysInMonth(year, month)
                 /\ hour <= 23 /\ minute <= 59 /\ second <= 60
                 /\ offset.some)
            THEN [ok |-> FALSE]
            ELSE LET local == hour * 3600 + minute * 60
                              + (IF second = 60 THEN 59 ELSE second)
                     utc == local - offset.v
                 IN [ok |-> TRUE,
                     utc_days |-> DaysFromCivil(year, month, day) + (utc \div 86400),
                     utc_secs |-> utc % 86400,
                     offset |-> offset.v]

\* the local date and time of a DateTime<FixedOffset>
LocalDays(dt) == dt.utc_days + ((dt.utc_secs + dt.offset) \div 86400)

LocalSecs(dt) == (dt.utc_secs + dt.offset) % 86400

hour_utc(dt) == dt.utc_secs \div 3600

\* Timelike::hour
hour(dt) == LocalSecs(dt) \div 3600

\* datetime.format("%Y%m%d")
format_Ymd(dt) ==
    LET date == CivilFromDays(LocalDays(dt))
    IN ZeroPad(Decimal(date.year), 4) \o ZeroPad(Decimal(date.month), 2)
       \o ZeroPad(Decimal(date.day), 2)

AMEDAS_URL == <<"https://www.jma.go.jp/bosai/amedas/data/point">>

multiples_of_3_hour_nearest(dt) == ((hour(dt) + 1) \div 3) * 3

\* let multiples_of_3_hour = datetime.hour() / 3 * 3
multiples_of_3_hour(dt) == (hour(dt) \div 3) * 3

create_amedas_url_default(amedas_code, update_str) ==
    LET parsed == parse_from_rfc3339(update_str)
        datetime == IF parsed.ok THEN parsed
                    ELSE [ok |-> TRUE, utc_days |-> 0, utc_secs |-> 0, offset |-> 0]
    IN [ok |-> TRUE,
        url |-> AMEDAS_URL \o <<"/">> \o amedas_code \o <<"/">>
                \o format_Ymd(datetime) \o <<"_">>
                \o ZeroPad(Decimal(multiples_of_3_hour(datetime)), 2)
                \o <<".", "j", "s", "o", "n">>]

\* create_amedas_url
create_amedas_url(amedas_code, update_str) ==
    LET datetime == parse_from_rfc3339(update_str)
    IN IF ~datetime.ok
       THEN [ok |-> FALSE, err |-> "ChronoParseError"]
       ELSE [ok |-> TRUE,
             url |-> AMEDAS_URL \o <<"/">> \o amedas_code \o <<"/">>
                     \o format_Ymd(datetime) \o <<"_">>
                     \o ZeroPad(Decimal(multiples_of_3_hour(datetime)), 2)
                     \o <<".", "j", "s", "o", "n">>]

-----------------------------------------------------------------------------
(* The timestamps and station codes the model draws from *)

StationCodes == {<<"1", "2", "3", "4", "5">>}

StampDates ==
    {<<2024, 2, 29>>, <<2024, 3, 1>>, <<2025, 1, 1>>, <<2025, 10, 10>>,
     <<2025, 12, 31>>, <<9999, 12, 31>>}

StampMinutes == {<<15, 35>>, <<59, 59>>}

StampOffsets ==
    {<<"+", "0", "9", ":", "0", "0">>, <<"Z">>,
     <<"-", "1", "1", ":", "3", "0">>, <<"+", "1", "4", ":", "0", "0">>}

\* the text of a timestamp
Stamp(date, h, ms, offset) ==
    ZeroPad(Decimal(date[1]), 4) \o <<"-">> \o ZeroPad(Decimal(date[2]), 2)
    \o <<"-">> \o ZeroPad(Decimal(date[3]), 2) \o <<"T">>
    \o ZeroPad(Decimal(h), 2) \o <<":">> \o ZeroPad(Decimal(ms[1]), 2)
    \o <<":">> \o ZeroPad(Decimal(ms[2]), 2) \o offset

\* well-formed RFC 3339 timestamps
Timestamps ==
    {Stamp(date, h, ms, offset) :
        date \in StampDates, h \in 0..23, ms \in StampMinutes, offset \in StampOffsets}

\* texts that are no RFC 3339 timestamp: a bare date, the empty text, a
\* thirteenth month, a thirtieth of February, a twenty-fifth hour, a sixtieth
\* minute, a time without an offset, a date without a time but with an offset
Malformed ==
    {<<"2", "0", "2", "5", "-", "1", "0", "-", "1", "0">>, << >>,
     Stamp(<<2025, 13, 10>>, 2, <<15, 35>>, <<"+", "0", "9", ":", "0", "0">>),
     Stamp(<<2025, 2, 30>>, 2, <<15, 35>>, <<"+", "0", "9", ":", "0", "0">>),
     Stamp(<<2025, 10, 10>>, 25, <<15, 35>>, <<"+", "0", "9", ":", "0", "0">>),
     Stamp(<<2025, 10, 10>>, 2, <<60, 35>>, <<"Z">>),
     Stamp(<<2025, 10, 10>>, 2, <<15, 35>>, << >>),
     <<"2", "0", "2", "5", "-", "1", "0", "-", "1", "0", "Z">>}

\* no area document is involved
NoAreas == Loaded([s \in {} |-> None])

InitUrl == NoAreas /\ Unfetched

CreateAmedasUrl ==
    \E amedas_code \in StationCodes, update_str \in Timestamps \cup Malformed :
        /\ call = Idle
        /\ call' = [op |-> "create_amedas_url", amedas_code |-> amedas_code,
                    update_str |-> update_str]
        /\ ret' = create_amedas_url(amedas_code, update_str)
        /\ UNCHANGED <<tables, iter, amedas, json, fetched, forecast_area>>

NextUrl == Return \/ CreateAmedasUrl

SpecUrl == InitUrl /\ [][NextUrl]_vars

\* C10: for a well-formed timestamp the URL is base/station/YYYYMMDD_BB.json,
\* YYYYMMDD being the date the timestamp itself writes and BB its hour H
\* less H mod 3, in two digits: one of 00, 03, 06, 09, 12, 15, 18, 21.
C10_UrlHourBucket ==
    (call.op = "create_amedas_url" /\ call.update_str \in Timestamps) =>
        LET str == call.update_str
            H == Number(SubSeq(str, 12, 13))
            BB == H - (H % 3)
        IN /\ H \in 0..23
           /\ BB \in {0, 3, 6, 9, 12, 15, 18, 21}
           /\ ret.ok
           /\ ret.url = AMEDAS_URL \o <<"/">> \o call.amedas_code \o <<"/">>
                        \o SubSeq(str, 1, 4) \o SubSeq(str, 6, 7) \o SubSeq(str, 9, 10)
                        \o <<"_">> \o <<Digits[(BB \div 10) + 1], Digits[(BB % 10) + 1]>>
                        \o <<".", "j", "s", "o", "n">>

C10_Witness ==
    /\ call.op = "create_amedas_url"
    /\ call.update_str = Stamp(<<2025, 10, 10>>, 23, <<15, 35>>,
                               <<"+", "0", "9", ":", "0", "0">>)
    /\ ret.ok
    /\ SubSeq(ret.url, Len(ret.url) - 15, Len(ret.url)) =
         <<"2", "0", "2", "5", "1", "0", "1", "0", "_", "2", "1", ".", "j", "s", "o", "n">>

-----------------------------------------------------------------------------
(* AMeDAS readings.  Every field of AmedasRawData is a (value, quality)    *)
(* pair; weather and snow1h may be absent as a whole, and the value of     *)
(* wind_direction and of wind may be absent inside its pair.               *)

\* a reading whose plain numeric fields all derive from n
Reading(n, weather, snow1h, wind_direction, wind) ==
    [pressure |-> <<1000 + n, 0>>,
     temp |-> <<n, 0>>,
     humidity |-> <<50 + n, 0>>,
     visibility |-> <<20000 + n, 0>>,
     weather |-> weather,
     snow1h |-> snow1h,
     precipitation10m |-> <<n, 0>>,
     wind_direction |-> <<wind_direction, 0>>,
     wind |-> <<wind, 0>>]

\* the maps over some of the keys
Maps(keys, readings) == UNION {[S -> readings] : S \in SUBSET keys}

-----------------------------------------------------------------------------
(* The station: Amedas::new and Amedas::update.  The answers the server    *)
(* gives during a call are the call's input `net`: one answer to the       *)
(* request for the latest time and one to the request for the observation  *)
(* document.  A failed answer stands for a transport or a decoding error,  *)
(* both a reqwest::Error.                                                  *)

AMEDAS_UPDATE == <<"https://www.jma.go.jp/bosai/amedas/data/latest_time.txt">>

\* get_latest_time: the first line of the body, or the empty text
get_latest_time(net) ==
    IF ~net.latest_time.ok
    THEN [ok |-> FALSE, err |-> "ReqwestError"]
    ELSE [ok |-> TRUE,
          v |-> IF net.latest_time.lines = << >> THEN << >>
                ELSE Head(net.latest_time.lines)]

\* amedas_data; an answer carries `json`, the map its body decodes to, when
\* the body has the structure of HashMap<String, AmedasRawData>
amedas_data(url, net) ==
    IF ~net.data.ok
    THEN [ok |-> FALSE, err |-> "ReqwestError"]
    ELSE IF "json" \notin DOMAIN net.data
    THEN [ok |-> FALSE, err |-> "ReqwestError"]
    ELSE [ok |-> TRUE, v |-> net.data.json]

\* Amedas::new; `requests` lists the URLs requested on the way
new(amedas_code, net) ==
    LET latest_time == get_latest_time(net)
    IN IF ~latest_time.ok
       THEN [ok |-> FALSE, err |-> latest_time.err, requests |-> <<AMEDAS_UPDATE>>]
       ELSE LET url == create_amedas_url(amedas_code, latest_time.v)
            IN IF ~url.ok
               THEN [ok |-> FALSE, err |-> url.err, requests |-> <<AMEDAS_UPDATE>>]
               ELSE LET data == amedas_data(url.url, net)
                    IN IF ~data.ok
                       THEN [ok |-> FALSE, err |-> data.err,
                             requests |-> <<AMEDAS_UPDATE, url.url>>]
                       ELSE [ok |-> TRUE,
                             v |-> [amedas_code |-> amedas_code,
                                    data |-> data.v,
                                    latest_time |-> latest_time.v],
                             requests |-> <<AMEDAS_UPDATE, url.url>>]

update_merge(self, net) ==
    LET latest_time == get_latest_time(net)
    IN IF ~latest_time.ok
       THEN [ok |-> FALSE, err |-> latest_time.err, self |-> self,
             requests |-> <<AMEDAS_UPDATE>>]
       ELSE IF latest_time.v = self.latest_time
       THEN [ok |-> TRUE, v |-> FALSE, self |-> self, requests |-> <<AMEDAS_UPDATE>>]
       ELSE LET url == create_amedas_url(self.amedas_code, latest_time.v)
            IN IF ~url.ok
               THEN [ok |-> FALSE, err |-> url.err, self |-> self,
                     requests |-> <<AMEDAS_UPDATE>>]
               ELSE LET data == amedas_data(url.url, net)
                    IN IF ~data.ok
                       THEN [ok |-> FALSE, err |-> data.err, self |-> self,
                             requests |-> <<AMEDAS_UPDATE, url.url>>]
                       ELSE [ok |-> TRUE, v |-> TRUE,
                             self |-> [amedas_code |-> self.amedas_code,
                                       data |-> data.v @@ self.data,
                                       latest_time |-> latest_time.v],
                             requests |-> <<AMEDAS_UPDATE, url.url>>]

update_stamp_first(self, net) ==
    LET latest_time == get_latest_time(net)
    IN IF ~latest_time.ok
       THEN [ok |-> FALSE, err |-> latest_time.err, self |-> self,
             requests |-> <<AMEDAS_UPDATE>>]
       ELSE IF latest_time.v = self.latest_time
       THEN [ok |-> TRUE, v |-> FALSE, self |-> self, requests |-> <<AMEDAS_UPDATE>>]
       ELSE LET url == create_amedas_url(self.amedas_code, latest_time.v)
                stamped == [self EXCEPT !.latest_time = latest_time.v]
            IN IF ~url.ok
               THEN [ok |-> FALSE, err |-> url.err, self |-> self,
                     requests |-> <<AMEDAS_UPDATE>>]
               ELSE LET data == amedas_data(url.url, net)
                    IN IF ~data.ok
                       THEN [ok |-> FALSE, err |-> data.err, self |-> stamped,
                             requests |-> <<AMEDAS_UPDATE, url.url>>]
                       ELSE [ok |-> TRUE, v |-> TRUE,
                             self |-> [stamped EXCEPT !.data = data.v],
                             requests |-> <<AMEDAS_UPDATE, url.url>>]

update_data_only(self, net) ==
    LET latest_time == get_latest_time(net)
    IN IF ~latest_time.ok
       THEN [ok |-> FALSE, err |-> latest_time.err, self |-> self,
             requests |-> <<AMEDAS_UPDATE>>]
       ELSE IF latest_time.v = self.latest_time
       THEN [ok |-> TRUE, v |-> FALSE, self |-> self, requests |-> <<AMEDAS_UPDATE>>]
       ELSE LET url == create_amedas_url(self.amedas_code, latest_time.v)
            IN IF ~url.ok
               THEN [ok |-> FALSE, err |-> url.err, self |-> self,
                     requests |-> <<AMEDAS_UPDATE>>]
               ELSE LET data == amedas_data(url.url, net)
                    IN IF ~data.ok
                       THEN [ok |-> FALSE, err |-> data.err, self |-> self,
                             requests |-> <<AMEDAS_UPDATE, url.url>>]
                       ELSE [ok |-> TRUE, v |-> TRUE,
                             self |-> [self EXCEPT !.data = data.v],
                             requests |-> <<AMEDAS_UPDATE, url.url>>]

\* Amedas::update on the station `self`; `self` of the result is the station
\* after the call
update(self, net) ==
    LET latest_time == get_latest_time(net)
    IN IF ~latest_time.ok
       THEN [ok |-> FALSE, err |-> latest_time.err, self |-> self,
             requests |-> <<AMEDAS_UPDATE>>]
       ELSE IF latest_time.v = self.latest_time
       THEN [ok |-> TRUE, v |-> FALSE, self |-> self, requests |-> <<AMEDAS_UPDATE>>]
       ELSE LET url == create_amedas_url(self.amedas_code, latest_time.v)
            IN IF ~url.ok
               THEN [ok |-> FALSE, err |-> url.err, self |-> self,
                     requests |-> <<AMEDAS_UPDATE>>]
               ELSE LET data == amedas_data(url.url, net)
                    IN IF ~data.ok
                       THEN [ok |-> FALSE, err |-> data.err, self |-> self,
                             requests |-> <<AMEDAS_UPDATE, url.url>>]
                       ELSE [ok |-> TRUE, v |-> TRUE,
                             self |-> [amedas_code |-> self.amedas_code,
                                       data |-> data.v,
                                       latest_time |-> latest_time.v],
                             requests |-> <<AMEDAS_UPDATE, url.url>>]

-----------------------------------------------------------------------------
(* What the server may answer *)

\* the times the server publishes
LatestTimes ==
    {Stamp(<<2025, 10, 10>>, 2, <<15, 35>>, <<"+", "0", "9", ":", "0", "0">>),
     Stamp(<<2025, 10, 10>>, 2, <<59, 59>>, <<"+", "0", "9", ":", "0", "0">>),
     Stamp(<<2025, 10, 10>>, 3, <<15, 35>>, <<"+", "0", "9", ":", "0", "0">>)}

\* the bodies of latest_time.txt: empty, one line, or a line and more
Bodies ==
    {<< >>} \cup {<<t>> : t \in LatestTimes \cup Malformed}
    \cup {<<t, <<"x">>>> : t \in LatestTimes}

RequestFailed == [ok |-> FALSE]

TimeAnswers == {RequestFailed} \cup {[ok |-> TRUE, lines |-> b] : b \in Bodies}

SnapshotKeys == {<<"5">>, <<"7">>}

SnapshotReadings ==
    {Reading(1, None, None, Some(0), Some(0)),
     Reading(2, Some(<<0, 0>>), Some(<<1, 0>>), Some(16), Some(3))}

\* the observation documents the server publishes
Snapshots == Maps(SnapshotKeys, SnapshotReadings)

DataAnswers == {RequestFailed} \cup {[ok |-> TRUE, json |-> d] : d \in Snapshots}

Nets == [latest_time : TimeAnswers, data : DataAnswers]

InitAmedas == NoAreas /\ Unfetched

\* the record of an observation document that arrived during a call: the
\* station code it was asked for, the time text and the URL of the request,
\* and the document
Arrival(amedas_code, net, requests) ==
    [code |-> amedas_code, time |-> get_latest_time(net).v, url |-> requests[2],
     doc |-> net.data.json]

\* the caller keeps the station that Amedas::new returns
New ==
    \E amedas_code \in StationCodes, net \in Nets :
        /\ call = Idle
        /\ ~amedas.some
        /\ call' = [op |-> "new", amedas_code |-> amedas_code, net |-> net,
                    self |-> amedas]
        /\ ret' = new(amedas_code, net)
        /\ amedas' = IF ret'.ok THEN Some(ret'.v) ELSE amedas
        /\ fetched' = IF Len(ret'.requests) = 2 /\ net.data.ok
                      THEN Some(Arrival(amedas_code, net, ret'.requests))
                      ELSE fetched
        /\ UNCHANGED <<tables, iter, json, forecast_area>>

Update ==
    \E net \in Nets :
        /\ call = Idle
        /\ amedas.some
        /\ call' = [op |-> "update", net |-> net, self |-> amedas]
        /\ ret' = update(amedas.v, net)
        /\ amedas' = Some(ret'.self)
        /\ fetched' = IF Len(ret'.requests) = 2 /\ net.data.ok
                      THEN Some(Arrival(fetched.v.code, net, ret'.requests))
                      ELSE fetched
        /\ UNCHANGED <<tables, iter, json, forecast_area>>

NextAmedas == Return \/ CreateAmedasUrl \/ New \/ Update

SpecAmedas == InitAmedas /\ [][NextAmedas]_vars

\* the time text a call of new or update was answered with
Published(c) ==
    IF c.net.latest_time.lines = << >> THEN << >> ELSE Head(c.net.latest_time.lines)

\* C11: for a text that is no well-formed RFC 3339 timestamp, the bare date
\* and the empty text of an empty body among them, create_amedas_url returns
\* the error ChronoParseError and no URL; Amedas::new and Amedas::update
\* answered with such a text return that error, request no observation
\* document and leave the station as it was.
C11_MalformedTimeIsParseError ==
    /\ (call.op = "create_amedas_url" /\ call.update_str \in Malformed) =>
           ret = [ok |-> FALSE, err |-> "ChronoParseError"]
    /\ (/\ call.op \in {"new", "update"}
        /\ call.net.latest_time.ok
        /\ Published(call) \in Malformed) =>
           /\ ~ret.ok
           /\ ret.err = "ChronoParseError"
           /\ ret.requests = <<AMEDAS_UPDATE>>
           /\ amedas = call.self

C11_Witness ==
    /\ call.op = "update"
    /\ call.net.latest_time.ok
    /\ call.net.latest_time.lines = << >>
    /\ call.net.data.ok
    /\ ret.err = "ChronoParseError"

\* C18: update compares the time the server publishes with the stored one.
\* Equal: it returns false, requests nothing but the latest time, and the
\* station is as before.  Different, well-formed, and the document arrives:
\* it returns true, latest_time is the published text and data is the
\* document that arrived, with its keys only.
C18_UpdateReplacesSnapshot ==
    (call.op = "update" /\ call.net.latest_time.ok) =>
        LET fresh == Published(call)
            old == call.self.v
        IN /\ fresh = old.latest_time =>
                 /\ ret.ok /\ ret.v = FALSE
                 /\ ret.requests = <<AMEDAS_UPDATE>>
                 /\ amedas = call.self
           /\ (fresh # old.latest_time /\ fresh \in LatestTimes /\ call.net.data.ok) =>
                 /\ ret.ok /\ ret.v = TRUE
                 /\ Len(ret.requests) = 2
                 /\ amedas.v.amedas_code = old.amedas_code
                 /\ amedas.v.latest_time = fresh
                 /\ amedas.v.data = call.net.data.json
                 /\ DOMAIN amedas.v.data = DOMAIN call.net.data.json

\* the stored snapshot had the key "5", the one fetched has only "7"
C18_Witness ==
    /\ call.op = "update"
    /\ ret.ok /\ ret.v = TRUE
    /\ DOMAIN call.self.v.data = {<<"5">>}
    /\ DOMAIN amedas.v.data = {<<"7">>}
    /\ amedas.v.latest_time # call.self.v.latest_time

-----------------------------------------------------------------------------
(* The latest reading: Amedas::get_latest_data *)

\* a map given to get_latest_data holds at most MaxReadings entries
MaxReadings == 2

\* the byte of a character of a key
CharCode(ch) ==
    IF IsDigit(ch) THEN 48 + DigitVal(ch)
    ELSE IF ch = "+" THEN 43
    ELSE 120

\* Ord for String: byte by byte, a proper prefix first
RECURSIVE StrLess(_, _)
StrLess(a, b) ==
    IF b = << >> THEN FALSE
    ELSE IF a = << >> THEN TRUE
    ELSE IF Head(a) # Head(b) THEN CharCode(Head(a)) < CharCode(Head(b))
    ELSE StrLess(Tail(a), Tail(b))

RECURSIVE StripZeros(_)
StripZeros(str) ==
    IF Len(str) > 1 /\ Head(str) = "0" THEN StripZeros(Tail(str)) ELSE str

\* u64::MAX in decimal
U64_MAX == <<"1", "8", "4", "4", "6", "7", "4", "4", "0", "7", "3", "7", "0", "9", "5", "5", "1", "6", "1", "5">>

\* str::parse::<u64>().ok(): an optional "+", then one digit or more, the
\* number at most u64::MAX
parse_u64(str) ==
    LET digits == IF str # << >> /\ Head(str) = "+" THEN Tail(str) ELSE str
        significant == StripZeros(digits)
    IN IF digits = << >> \/ ~AllDigits(digits)
       THEN None
       ELSE IF \/ Len(significant) > Len(U64_MAX)
               \/ Len(significant) = Len(U64_MAX) /\ StrLess(U64_MAX, significant)
       THEN None
       ELSE Some(Number(significant))

\* u64::to_string
to_string(n) == Decimal(n)

\* Iterator::max over the parsed keys
Max(S) == CHOOSE x \in S : \A y \in S : y <= x

MaxString(S) == CHOOSE x \in S : \A y \in S : y = x \/ StrLess(y, x)

\* Iterator::min over the keys, as strings
MinString(S) == CHOOSE x \in S : \A y \in S : y = x \/ StrLess(x, y)

Overlay_weather_only(latest_data, data, dt) ==
    [latest_data EXCEPT !.weather = data[dt].weather]

\* the overlay of get_latest_data: weather and snow1h of the entry at dt
Overlay(latest_data, data, dt) ==
    [latest_data EXCEPT !.weather = data[dt].weather, !.snow1h = data[dt].snow1h]

\* what a call that panicked leaves its caller with
Panic == [some |-> FALSE, panic |-> TRUE]

get_latest_data_index(self) ==
    LET datetime == {parse_u64(k).v : k \in {j \in DOMAIN self.data : parse_u64(j).some}}
    IN IF datetime = {}
       THEN None
       ELSE LET latest == to_string(Max(datetime))
                with_weather == {k \in DOMAIN self.data : self.data[k].weather.some}
                latest_weather_datetime ==
                    IF with_weather = {} THEN None ELSE Some(MinString(with_weather))
            IN IF latest \notin DOMAIN self.data
               THEN Panic
               ELSE IF latest_weather_datetime.some
               THEN Some(Overlay(self.data[latest], self.data, latest_weather_datetime.v))
               ELSE Some(self.data[latest])

\* Amedas::get_latest_data.  self.data.get(&latest) answers a missing key
\* with None; self.data[dt] would panic on one.
get_latest_data(self) ==
    LET datetime == {parse_u64(k).v : k \in {j \in DOMAIN self.data : parse_u64(j).some}}
    IN IF datetime = {}
       THEN None
       ELSE LET latest == to_string(Max(datetime))
                with_weather == {k \in DOMAIN self.data : self.data[k].weather.some}
                latest_weather_datetime ==
                    IF with_weather = {} THEN None ELSE Some(MinString(with_weather))
            IN IF latest \notin DOMAIN self.data
               THEN None
               ELSE IF ~latest_weather_datetime.some
               THEN Some(self.data[latest])
               ELSE IF latest_weather_datetime.v \notin DOMAIN self.data
               THEN Panic
               ELSE Some(Overlay(self.data[latest], self.data, latest_weather_datetime.v))

\* the keys of the maps: decimal timestamps of one and of two digits, one
\* written with a leading zero, one beyond u64::MAX, one that is no number
ReadingKeys ==
    {<<"5">>, <<"7">>, <<"0", "7">>, <<"1", "0">>, <<"1", "8", "4", "4", "6", "7", "4", "4", "0", "7", "3", "7", "0", "9", "5", "5", "1", "6", "1", "6">>, <<"x">>}

Weathers == {None, Some(<<0, 0>>), Some(<<3, 0>>)}

Snows == {None, Some(<<1, 0>>)}

LatestReadings ==
    {Reading(n, weather, snow1h, Some(0), Some(0)) :
        n \in {1, 2}, weather \in Weathers, snow1h \in Snows}

\* the maps of at most MaxReadings entries
LatestMaps ==
    UNION {[S -> LatestReadings] :
              S \in {T \in SUBSET ReadingKeys : Cardinality(T) <= MaxReadings}}

\* a station holding any of the maps
InitLatest ==
    /\ NoAreas
    /\ json = None
    /\ fetched = None
    /\ forecast_area = None
    /\ \E amedas_code \in StationCodes, data \in LatestMaps, latest_time \in LatestTimes :
           amedas = Some([amedas_code |-> amedas_code, data |-> data,
                          latest_time |-> latest_time])

GetLatestData ==
    /\ call = Idle
    /\ amedas.some
    /\ call' = [op |-> "get_latest_data"]
    /\ ret' = get_latest_data(amedas.v)
    /\ UNCHANGED <<tables, iter, amedas, json, fetched, forecast_area>>

NextLatest == Return \/ GetLatestData

SpecLatest == InitLatest /\ [][NextLatest]_vars

\* the keys that parse, and the time each writes
ParsedKeys == {k \in DOMAIN amedas.v.data : parse_u64(k).some}

TimeOf(k) == parse_u64(k).v

\* a key that is the decimal rendering of its own time
IsTimestamp(k) == parse_u64(k).some /\ to_string(TimeOf(k)) = k

\* the keys of the entries that carry a weather field
WithWeather == {k \in DOMAIN amedas.v.data : amedas.v.data[k].weather.some}

\* the fields of a reading other than weather and snow1h
Numeric(r) ==
    <<r.pressure, r.temp, r.humidity, r.visibility, r.precipitation10m,
      r.wind_direction, r.wind>>

\* C12: a reading returned by get_latest_data has the pressure, temp,
\* humidity, visibility, precipitation, wind direction and wind of an entry
\* whose key writes the greatest time of all keys; and in a map whose
\* weather-bearing keys are decimal timestamps, when that entry carries no
\* weather and an entry of an earlier time does, the weather and snow1h
\* returned are both those of one such earlier entry.
C12_LatestNumericEarlierWeather ==
    (call.op = "get_latest_data" /\ ret.some) =>
        \E k \in ParsedKeys :
            LET data == amedas.v.data
                Earlier == {e \in WithWeather : TimeOf(e) < TimeOf(k)}
            IN /\ \A j \in ParsedKeys : TimeOf(j) <= TimeOf(k)
               /\ Numeric(ret.v) = Numeric(data[k])
               /\ (/\ \A w \in WithWeather : IsTimestamp(w)
                   /\ ~data[k].weather.some
                   /\ Earlier # {}) =>
                      \E e \in Earlier :
                          /\ ret.v.weather = data[e].weather
                          /\ ret.v.snow1h = data[e].snow1h

C12_Witness ==
    /\ call.op = "get_latest_data"
    /\ amedas.v.data =
          (<<"7">> :> Reading(2, None, None, Some(0), Some(0)))
          @@ (<<"5">> :> Reading(1, Some(<<3, 0>>), Some(<<1, 0>>), Some(0), Some(0)))
    /\ ret = Some(Reading(2, Some(<<3, 0>>), Some(<<1, 0>>), Some(0), Some(0)))

\* C13: the weather returned by get_latest_data is the weather of the
\* weather-bearing entry of the greatest time: the newest entry's own when
\* it carries one, the most recent one's among several.
C13_LatestWeatherWins ==
    (call.op = "get_latest_data" /\ ret.some) =>
        LET W == {k \in WithWeather : parse_u64(k).some}
        IN W # {} =>
              \E k \in W :
                  /\ \A j \in W : TimeOf(j) <= TimeOf(k)
                  /\ ret.v.weather = amedas.v.data[k].weather

\* the key get_latest_data reads the latest reading from
Chosen ==
    CHOOSE k \in ParsedKeys :
        /\ IsTimestamp(k)
        /\ \A j \in ParsedKeys : TimeOf(j) <= TimeOf(k)

\* C14: a reading returned by get_latest_data is the chosen latest entry
\* with weather and snow1h both replaced by those of one entry, the one of
\* the least key (in the order of the keys as strings, which among decimal
\* timestamps of one width is the earliest time) of the entries carrying
\* weather; when no entry carries weather it is the latest entry as it is,
\* its weather absent.
C14_OverlayFromMinimumKey ==
    (call.op = "get_latest_data" /\ ret.some) =>
        LET data == amedas.v.data
        IN IF WithWeather = {}
           THEN ret.v = data[Chosen] /\ ~ret.v.weather.some
           ELSE \E m \in WithWeather :
                   /\ \A j \in WithWeather : j = m \/ StrLess(m, j)
                   /\ (\A j \in WithWeather : IsTimestamp(j) /\ Len(j) = Len(m)) =>
                          \A j \in WithWeather : TimeOf(m) <= TimeOf(j)
                   /\ ret.v = [data[Chosen] EXCEPT !.weather = data[m].weather,
                                                   !.snow1h = data[m].snow1h]

\* the newest entry carries weather and snow, an older one another weather
\* and no snow: the older one's are returned
C14_Witness ==
    /\ call.op = "get_latest_data"
    /\ amedas.v.data =
          (<<"7">> :> Reading(2, Some(<<3, 0>>), Some(<<1, 0>>), Some(0), Some(0)))
          @@ (<<"5">> :> Reading(1, Some(<<0, 0>>), None, Some(0), Some(0)))
    /\ ret = Some(Reading(2, Some(<<0, 0>>), None, Some(0), Some(0)))

\* C15: get_latest_data never panics; it returns absent when the map is
\* empty or none of its keys parses as an unsigned integer, and a reading
\* whenever the decimal rendering of the greatest parsed key is a key.
C15_AbsentOrReading ==
    (call.op = "get_latest_data") =>
        /\ ret # Panic
        /\ "panic" \notin DOMAIN ret
        /\ (DOMAIN amedas.v.data = {} \/ ParsedKeys = {}) => ret = None
        /\ (/\ ParsedKeys # {}
            /\ to_string(Max({TimeOf(k) : k \in ParsedKeys})) \in DOMAIN amedas.v.data) =>
               ret.some

\* neither key parses: one is no number, one is beyond u64::MAX
C15_Witness ==
    /\ call.op = "get_latest_data"
    /\ Cardinality(DOMAIN amedas.v.data) = 2
    /\ ParsedKeys = {}
    /\ ret = None

-----------------------------------------------------------------------------
(* The display labels: the wind and weather tables, weather_emoji, svg_url  *)
(* and AmedasData::from.  A label is one string; an arrow of the wind table *)
(* is written as its code point.                                           *)

AMEDAS_WIND_DIRECTION_STR ==
    <<"--", "NNE", "NE", "ENE", "E", "ESE", "SE", "SSE", "S", "SSW", "SW",
      "WSW", "W", "WNW", "NW", "NNW", "N">>

AMEDAS_WIND_DIRECTION_ARROW ==
    <<"U+30FB", "U+21D9", "U+21D9", "U+21D0", "U+21D0", "U+21D6", "U+21D6",
      "U+21D1", "U+21D1", "U+21D7", "U+21D7", "U+21D2", "U+21D2", "U+21D8",
      "U+21D8", "U+21D3", "U+21D3">>

AMEDAS_WEATHER_EMOJI_SLACK ==
    <<<<0, ":sunny:">>, <<1, ":cloud:">>, <<2, ":fog:">>, <<3, ":fogggy:">>,
      <<4, ":umbrella_with_rain_drops:">>, <<5, ":umbrella_with_rain_drops:">>,
      <<6, ":fog:">>, <<7, ":umbrella_with_rain_drops:">>,
      <<8, ":umbrella_with_rain_drops:">>, <<9, ":snowflake:">>,
      <<10, ":snowman:">>, <<11, ":snow_cloud:">>, <<12, ":snow_cloud:">>,
      <<13, ":partly_sunny_rain:">>, <<14, ":partly_sunny_rain:">>,
      <<15, ":snowflake:">>, <<16, ":lightning:">>, <<100, ":night_with_stars:">>,
      <<999, ":construction:">>>>

AMEDAS_WEATHER_EMOJI_DISCORD ==
    <<<<0, ":sunny:">>, <<1, ":cloud:">>, <<2, ":fog:">>, <<3, ":fogggy:">>,
      <<4, ":umbrella:">>, <<5, ":umbrella:">>, <<6, ":fog:">>, <<7, ":umbrella:">>,
      <<8, ":umbrella:">>, <<9, ":snowflake:">>, <<10, ":snowman2:">>,
      <<11, ":cloud_snow:">>, <<12, ":cloud_snow:">>,
      <<13, ":white_sun_rain_cloud:">>, <<14, ":white_sun_rain_cloud:">>,
      <<15, ":snowflake:">>, <<16, ":thunder_cloud_rain:">>,
      <<100, ":night_with_stars:">>, <<999, ":construction:">>>>

JMA_WEATHER_SVG_URL == <<"https://www.jma.go.jp/bosai/forecast/img">>

\* (code, day image, night image)
AMEDAS_WEATHER_JMA_WEATHER_CODES ==
    <<<<0, 100, 500>>, <<1, 200, 200>>, <<2, 200, 200>>, <<3, 300, 300>>,
      <<4, 300, 300>>, <<5, 300, 300>>, <<6, 400, 400>>, <<7, 300, 300>>,
      <<8, 400, 400>>, <<9, 403, 403>>, <<10, 400, 400>>, <<11, 403, 403>>,
      <<12, 400, 400>>, <<13, 302, 302>>, <<14, 402, 402>>, <<15, 400, 400>>,
      <<16, 300, 300>>, <<100, 500, 500>>, <<999, 308, 308>>>>

\* what a call that returned x leaves its caller with
Returned(x) == [panic |-> FALSE, v |-> x]

\* the for loop of svg_url from entry i on; code_999.unwrap() panics on None
RECURSIVE SvgUrlLoop(_, _, _, _)
SvgUrlLoop(code, night, i, code_999) ==
    IF i > Len(AMEDAS_WEATHER_JMA_WEATHER_CODES)
    THEN IF code_999.some
         THEN Returned(JMA_WEATHER_SVG_URL \o <<"/">> \o Decimal(code_999.v)
                       \o <<".", "s", "v", "g">>)
         ELSE Panic
    ELSE LET c == AMEDAS_WEATHER_JMA_WEATHER_CODES[i][1]
             day_svg == AMEDAS_WEATHER_JMA_WEATHER_CODES[i][2]
             night_svg == AMEDAS_WEATHER_JMA_WEATHER_CODES[i][3]
             svg == IF night THEN night_svg ELSE day_svg
         IN IF code = c
            THEN Returned(JMA_WEATHER_SVG_URL \o <<"/">> \o Decimal(svg)
                          \o <<".", "s", "v", "g">>)
            ELSE SvgUrlLoop(code, night, i + 1, IF c = 999 THEN Some(svg) ELSE code_999)

\* svg_url
svg_url(code, night) == SvgUrlLoop(code, night, 1, None)

\* the for loop of weather_emoji from entry i on
RECURSIVE WeatherEmojiLoop(_, _, _, _)
WeatherEmojiLoop(code, emoji, i, code_999) ==
    IF i > Len(emoji)
    THEN IF code_999.some THEN Returned(code_999.v) ELSE Panic
    ELSE LET c == emoji[i][1]
             e == emoji[i][2]
         IN IF code = c
            THEN Returned(e)
            ELSE WeatherEmojiLoop(code, emoji, i + 1, IF c = 999 THEN Some(e) ELSE code_999)

weather_emoji_clamped(code, emoji) ==
    WeatherEmojiLoop(IF code > 16 THEN 16 ELSE code, emoji, 1, None)

\* weather_emoji
weather_emoji(code, emoji) == WeatherEmojiLoop(code, emoji, 1, None)

\* wind_direction.0.unwrap_or(0), wind.0.unwrap_or(0.0)
unwrap_or(option, default) == IF option.some THEN option.v ELSE default

WindIndex_north(raw) == unwrap_or(raw.wind_direction[1], 16)

\* the index into the wind tables
WindIndex(raw) == unwrap_or(raw.wind_direction[1], 0)

\* impl From<&AmedasRawData> for AmedasData; an index beyond a table panics
From(raw) ==
    LET slack == weather_emoji(IF raw.weather.some THEN raw.weather.v[1] ELSE 999,
                               AMEDAS_WEATHER_EMOJI_SLACK)
        discord == weather_emoji(IF raw.weather.some THEN raw.weather.v[1] ELSE 999,
                                 AMEDAS_WEATHER_EMOJI_DISCORD)
        weather == IF raw.weather.some THEN Some(raw.weather.v[1]) ELSE None
        wind_direction == WindIndex(raw)
        wind == unwrap_or(raw.wind[1], 0)
        snow1h == IF raw.snow1h.some THEN Some(raw.snow1h.v[1]) ELSE None
    IN IF slack.panic \/ discord.panic
          \/ wind_direction + 1 \notin DOMAIN AMEDAS_WIND_DIRECTION_STR
          \/ wind_direction + 1 \notin DOMAIN AMEDAS_WIND_DIRECTION_ARROW
       THEN Panic
       ELSE Returned([pressure_hpa |-> raw.pressure[1],
                      temp_c |-> raw.temp[1],
                      humidity_percent |-> raw.humidity[1],
                      visibility_m |-> raw.visibility[1],
                      weather |-> weather,
                      snow1h |-> snow1h,
                      precipitation10m |-> raw.precipitation10m[1],
                      wind_direction |-> wind_direction,
                      wind_mps |-> wind,
                      weather_slack_emoji |-> slack.v,
                      weather_discord_emoji |-> discord.v,
                      wind_direction_str |-> AMEDAS_WIND_DIRECTION_STR[wind_direction + 1],
                      wind_direction_emoji |->
                          AMEDAS_WIND_DIRECTION_ARROW[wind_direction + 1]])

-----------------------------------------------------------------------------
(* The codes and readings the labels are asked for *)

\* the codes of the tables, and codes of none: 17 and 200 of the tests, the
\* neighbours of the sentinel, the greatest 32-bit signed integer
WeatherCodes ==
    {AMEDAS_WEATHER_JMA_WEATHER_CODES[i][1] : i \in DOMAIN AMEDAS_WEATHER_JMA_WEATHER_CODES}
    \cup {17, 99, 101, 200, 998, 1000, 2147483647}

EmojiTables == {AMEDAS_WEATHER_EMOJI_SLACK, AMEDAS_WEATHER_EMOJI_DISCORD}

\* wind directions: absent, every index of the tables, one beyond them
WindDirections == {None} \cup {Some(i) : i \in 0..17}

Winds == {None, Some(0), Some(3)}

LabelReadings ==
    {Reading(1, weather, snow1h, wind_direction, wind) :
        weather \in {None} \cup {Some(<<c, 0>>) : c \in {0, 16, 17, 100, 999}},
        snow1h \in Snows, wind_direction \in WindDirections, wind \in Winds}

InitLabels == NoAreas /\ Unfetched

WeatherEmoji ==
    \E code \in WeatherCodes, emoji \in EmojiTables :
        /\ call = Idle
        /\ call' = [op |-> "weather_emoji", code |-> code, emoji |-> emoji]
        /\ ret' = weather_emoji(code, emoji)
        /\ UNCHANGED <<tables, iter, amedas, json, fetched, forecast_area>>

SvgUrl ==
    \E code \in WeatherCodes, night \in BOOLEAN :
        /\ call = Idle
        /\ call' = [op |-> "svg_url", code |-> code, night |-> night]
        /\ ret' = svg_url(code, night)
        /\ UNCHANGED <<tables, iter, amedas, json, fetched, forecast_area>>

AmedasDataFrom ==
    \E raw \in LabelReadings :
        /\ call = Idle
        /\ call' = [op |-> "from", amedas |-> raw]
        /\ ret' = From(raw)
        /\ UNCHANGED <<tables, iter, amedas, json, fetched, forecast_area>>

NextLabels == Return \/ WeatherEmoji \/ SvgUrl \/ AmedasDataFrom

SpecLabels == InitLabels /\ [][NextLabels]_vars

\* the wind-direction index of the reading converted, absent counted as 0
IndexOf(raw) == IF raw.wind_direction[1].some THEN raw.wind_direction[1].v ELSE 0

\* for an index in 0..16, given or the 0 of an absent direction, the
\* conversion returns that index with entry i of each 17-entry table, entry
\* 0 being "--" and the middle dot
WindLabels ==
    (call.op = "from" /\ IndexOf(call.amedas) \in 0..16) =>
        LET i == IndexOf(call.amedas)
        IN /\ ~ret.panic
           /\ Len(AMEDAS_WIND_DIRECTION_STR) = 17
           /\ Len(AMEDAS_WIND_DIRECTION_ARROW) = 17
           /\ ret.v.wind_direction = i
           /\ ret.v.wind_direction_str = AMEDAS_WIND_DIRECTION_STR[i + 1]
           /\ ret.v.wind_direction_emoji = AMEDAS_WIND_DIRECTION_ARROW[i + 1]
           /\ i = 0 => /\ ret.v.wind_direction_str = "--"
                       /\ ret.v.wind_direction_emoji = "U+30FB"
           /\ i = 16 => /\ ret.v.wind_direction_str = "N"
                        /\ ret.v.wind_direction_emoji = "U+21D3"

\* C16 as it is stated: the wind labels are entry i of the two tables, and
\* a reading with an absent wind direction is converted as index 0 with
\* wind speed 0.
C16_AbsentDirectionIsCalm ==
    /\ WindLabels
    /\ (call.op = "from" /\ ~call.amedas.wind_direction[1].some) =>
           ret.v.wind_direction = 0 /\ ret.v.wind_mps = 0

\* C16 amended: the wind labels are entry i of the two tables; an absent
\* wind direction is converted as index 0, and the wind speed is the
\* reading's own whatever the direction, 0 when the speed is absent.
C16_AbsentDirectionAbsentSpeed ==
    /\ WindLabels
    /\ (call.op = "from" /\ ~call.amedas.wind_direction[1].some) =>
           ret.v.wind_direction = 0
    /\ (call.op = "from" /\ IndexOf(call.amedas) \in 0..16) =>
           ret.v.wind_mps = IF call.amedas.wind[1].some THEN call.amedas.wind[1].v ELSE 0

\* an absent direction beside a wind of 3: calm labels, speed 3
C16_Witness ==
    /\ call.op = "from"
    /\ ~call.amedas.wind_direction[1].some
    /\ call.amedas.wind[1] = Some(3)
    /\ ret.v.wind_direction_str = "--"
    /\ ret.v.wind_mps = 3

\* the entry of a table for a code, the entry of 999 for a code of none
EntryFor(table, code) ==
    IF \E i \in DOMAIN table : table[i][1] = code
    THEN table[CHOOSE i \in DOMAIN table : table[i][1] = code]
    ELSE table[CHOOSE i \in DOMAIN table : table[i][1] = 999]

\* C17: weather_emoji and svg_url return for every code, never panicking:
\* for a code of the table its own label (svg_url: its day or its night
\* image as the flag says), for any other code the entry of 999; and a
\* reading without weather is converted with weather absent and both labels
\* those of 999.
C17_LabelsTotalWithSentinel ==
    /\ call.op = "weather_emoji" =>
           ret = Returned(EntryFor(call.emoji, call.code)[2])
    /\ call.op = "svg_url" =>
           ret = Returned(JMA_WEATHER_SVG_URL \o <<"/">>
                          \o Decimal(EntryFor(AMEDAS_WEATHER_JMA_WEATHER_CODES,
                                               call.code)[IF call.night THEN 3 ELSE 2])
                          \o <<".", "s", "v", "g">>)
    /\ (call.op = "from" /\ ~call.amedas.weather.some /\ ~ret.panic) =>
           /\ ret.v.weather = None
           /\ ret.v.weather_slack_emoji = EntryFor(AMEDAS_WEATHER_EMOJI_SLACK, 999)[2]
           /\ ret.v.weather_discord_emoji = EntryFor(AMEDAS_WEATHER_EMOJI_DISCORD, 999)[2]
           /\ ret.v.weather_slack_emoji = ":construction:"
    /\ EntryFor(AMEDAS_WEATHER_JMA_WEATHER_CODES, 999) = <<999, 308, 308>>

\* code 200 of no table, at night: the image of 999
C17_Witness ==
    /\ call.op = "svg_url"
    /\ call.code = 200
    /\ call.night
    /\ ret = Returned(JMA_WEATHER_SVG_URL \o <<"/", "3", "0", "8", ".", "s", "v", "g">>)

-----------------------------------------------------------------------------
(* The forecast: JmaForecast of src/src/forecast.rs.  A JSON value is a     *)
(* record tagged with its type; the forecast document is held by what the  *)
(* accessors read of it: the first element of the root array with its      *)
(* reportDatetime and the third entry of its timeSeries.                   *)

\* timeDefines and temps hold at most MaxSeries entries
MaxSeries == 3

\* let data = [("014030", "014100"), ("460040", "460100")]
OfficeData ==
    <<<<<<"0", "1", "4", "0", "3", "0">>, <<"0", "1", "4", "1", "0", "0">>>>,
      <<<<"4", "6", "0", "0", "4", "0">>, <<"4", "6", "0", "1", "0", "0">>>>>>

\* the for loop of office_for_url from pair i on
RECURSIVE OfficeLoop(_, _)
OfficeLoop(office, i) ==
    IF i > Len(OfficeData) THEN office
    ELSE IF office = OfficeData[i][1] THEN OfficeData[i][2]
    ELSE OfficeLoop(office, i + 1)

office_for_url_first(office) ==
    IF office = OfficeData[1][1] THEN OfficeData[1][2] ELSE office

\* office_for_url
office_for_url(office) == OfficeLoop(office, 1)

FORECAST_URL == <<"https://www.jma.go.jp/bosai/forecast/data/forecast/">>

\* JmaForecast::new; `requests` lists the URLs requested
forecast_new(office, net) ==
    LET url_office == office_for_url(office)
        url == FORECAST_URL \o url_office \o <<".", "j", "s", "o", "n">>
    IN IF ~net.ok
       THEN [ok |-> FALSE, err |-> "reqwest::Error", requests |-> <<url>>]
       ELSE [ok |-> TRUE, v |-> net.json, requests |-> <<url>>]

\* serde_json::Value
Null == [t |-> "null"]

JsonString(str) == [t |-> "string", s |-> str]

JsonArray(seq) == [t |-> "array", a |-> seq]

\* self.json[0]["timeSeries"][2]: Null when a step of the path is missing
Series2(value) ==
    IF value.t = "array" /\ value.first.t = "object" THEN value.first.timeSeries2 ELSE Null

\* serde_json::from_value::<PeakTemps>
from_value_PeakTemps(value) ==
    IF value.t = "object" /\ value.timeDefines.t = "array" /\ value.areas.t = "array"
    THEN Some([time_defines |-> value.timeDefines.a, areas |-> value.areas.a])
    ELSE None

\* report_dt: the reportDatetime of the first element, when a string
ReportDatetime(value) ==
    IF /\ value.t = "array"
       /\ value.first.t = "object"
       /\ value.first.reportDatetime.t = "string"
    THEN Some(value.first.reportDatetime.s)
    ELSE None

get_clamped(vec, index) ==
    IF index + 1 \in DOMAIN vec THEN Some(vec[index + 1])
    ELSE IF vec # << >> THEN Some(vec[Len(vec)])
    ELSE None

\* Vec::get, the index counted from 0
get(vec, index) == IF index + 1 \in DOMAIN vec THEN Some(vec[index + 1]) ELSE None

\* peaks.areas.iter().find(|a| a.area.code == area_code)
find(areas_, area_code) ==
    LET hits == {i \in DOMAIN areas_ : areas_[i].area.code = area_code}
    IN IF hits = {} THEN None
       ELSE Some(areas_[CHOOSE i \in hits : \A j \in hits : i <= j])

PeakIndices_inclusive(now_hour) ==
    IF 5 <= now_hour /\ now_hour <= 17 THEN <<2, 0>> ELSE <<0, 1>>

\* (lowest_index, highest_index) at the local hour
PeakIndices(now_hour) ==
    IF 5 <= now_hour /\ now_hour < 17 THEN <<2, 0>> ELSE <<0, 1>>

\* JmaForecast::get_temperature_points: self.json[0]["timeSeries"][2]["areas"]
\* is Null when a step of the path is missing, and unwrap() panics on a value
\* that is no list of Temps
get_temperature_points(self) ==
    LET series == Series2(self)
        value == IF series.t = "object" THEN series.areas ELSE Null
    IN IF value.t = "array" THEN Returned(value.a) ELSE Panic

temperature_forecast_partial(self, area_code, now_hour) ==
    LET peaks == from_value_PeakTemps(Series2(self))
        report_dt == ReportDatetime(self)
        lowest_index == PeakIndices(now_hour)[1]
        highest_index == PeakIndices(now_hour)[2]
    IN IF ~peaks.some \/ ~report_dt.some THEN None
       ELSE LET lowest_datetime == get(peaks.v.time_defines, lowest_index)
                highest_datetime == get(peaks.v.time_defines, highest_index)
                area == find(peaks.v.areas, area_code)
            IN IF ~lowest_datetime.some \/ ~highest_datetime.some THEN None
               ELSE LET lowest == IF area.some THEN get(area.v.temps, lowest_index) ELSE None
                        highest == IF area.some THEN get(area.v.temps, highest_index) ELSE None
                    IN Some([report_datetime |-> report_dt.v,
                             area_name |-> IF area.some THEN area.v.area.name ELSE << >>,
                             area_code |-> IF area.some THEN area.v.area.code ELSE << >>,
                             lowest |-> unwrap_or(lowest, << >>),
                             lowest_datetime |-> lowest_datetime.v,
                             highest |-> unwrap_or(highest, << >>),
                             highest_datetime |-> highest_datetime.v])

\* JmaForecast::temperature_forecast, the local hour of Local::now() given
temperature_forecast(self, area_code, now_hour) ==
    LET peaks == from_value_PeakTemps(Series2(self))
        report_dt == ReportDatetime(self)
        lowest_index == PeakIndices(now_hour)[1]
        highest_index == PeakIndices(now_hour)[2]
    IN IF ~peaks.some THEN None
       ELSE IF ~report_dt.some THEN None
       ELSE LET lowest_datetime == get(peaks.v.time_defines, lowest_index)
                highest_datetime == get(peaks.v.time_defines, highest_index)
                area == find(peaks.v.areas, area_code)
            IN IF ~lowest_datetime.some THEN None
               ELSE IF ~highest_datetime.some THEN None
               ELSE IF ~area.some THEN None
               ELSE LET lowest == get(area.v.temps, lowest_index)
                        highest == get(area.v.temps, highest_index)
                    IN IF ~lowest.some THEN None
                       ELSE IF ~highest.some THEN None
                       ELSE Some([report_datetime |-> report_dt.v,
                                  area_name |-> area.v.area.name,
                                  area_code |-> area.v.area.code,
                                  lowest |-> lowest.v,
                                  lowest_datetime |-> lowest_datetime.v,
                                  highest |-> highest.v,
                                  highest_datetime |-> highest_datetime.v])

-----------------------------------------------------------------------------
(* The offices asked for and the documents the server may answer with *)

\* the two redirected offices, their two targets, an office of neither
\* kind, and the 140030 of the comment above office_for_url
Offices ==
    {<<"0", "1", "4", "0", "3", "0">>, <<"4", "6", "0", "0", "4", "0">>,
     <<"0", "1", "4", "1", "0", "0">>, <<"4", "6", "0", "1", "0", "0">>,
     <<"0", "1", "6", "0", "0", "0">>, <<"1", "4", "0", "0", "3", "0">>}

\* the entry of index k (from 0) of timeDefines is "Tk"
TimeDefinesOf(n) == [i \in 1..n |-> <<"T", Digits[i]>>]

\* the area at position p of the series: its name and temps tell it from
\* the areas at other positions
Point(p, code, n) ==
    [area |-> [code |-> code, name |-> <<"n", Digits[p + 1]>>],
     temps |-> [i \in 1..n |-> Decimal(10 * p + i - 1)]]

\* the areas of a series: none, one, or two (of one code or of two)
AreaLists ==
    {<< >>}
    \cup {<<Point(1, c, n)>> : c \in Codes, n \in 0..MaxSeries}
    \cup {<<Point(1, c[1], n[1]), Point(2, c[2], n[2])>> :
             c \in Codes \X Codes, n \in (0..MaxSeries) \X (0..MaxSeries)}

\* the third entry of timeSeries: well-shaped ones
PeakSeries ==
    {[t |-> "object", timeDefines |-> JsonArray(TimeDefinesOf(n)), areas |-> JsonArray(l)] :
        n \in 0..MaxSeries, l \in AreaLists}

\* ones of another shape: no such entry, an entry without the two keys, one
\* without areas
OtherSeries ==
    {Null,
     [t |-> "object", timeDefines |-> Null, areas |-> Null],
     [t |-> "object", timeDefines |-> JsonArray(TimeDefinesOf(MaxSeries)), areas |-> Null]}

ReportTime == <<"R">>

ForecastDoc(reportDatetime, series) ==
    [t |-> "array",
     first |-> [t |-> "object", reportDatetime |-> reportDatetime, timeSeries2 |-> series]]

\* a full series of one area, for the documents that lack something else
FullSeries ==
    [t |-> "object", timeDefines |-> JsonArray(TimeDefinesOf(MaxSeries)),
     areas |-> JsonArray(<<Point(1, <<"1">>, MaxSeries)>>)]

\* the documents: a report time with every series; a full series without a
\* report time or with one that is no string; a root that is an object, an
\* empty array, null
ForecastDocs ==
    {ForecastDoc(JsonString(ReportTime), series) : series \in PeakSeries \cup OtherSeries}
    \cup {ForecastDoc(Null, FullSeries), ForecastDoc([t |-> "number"], FullSeries),
          [t |-> "object"], [t |-> "array", first |-> Null], Null}

ForecastAnswers == {RequestFailed} \cup {[ok |-> TRUE, json |-> d] : d \in ForecastDocs}

Hours == 0..23

InitForecast == NoAreas /\ Unfetched

\* the caller keeps the JmaForecast that new returns
NewForecast ==
    \E office \in Offices, net \in ForecastAnswers :
        /\ call = Idle
        /\ ~json.some
        /\ call' = [op |-> "forecast_new", office |-> office, net |-> net]
        /\ ret' = forecast_new(office, net)
        /\ json' = IF ret'.ok THEN Some(ret'.v) ELSE json
        /\ UNCHANGED <<tables, iter, amedas, fetched, forecast_area>>

TemperatureForecast ==
    \E area_code \in Codes, now_hour \in Hours :
        /\ call = Idle
        /\ json.some
        /\ call' = [op |-> "temperature_forecast", area_code |-> area_code,
                    hour |-> now_hour]
        /\ ret' = temperature_forecast(json.v, area_code, now_hour)
        /\ UNCHANGED <<tables, iter, amedas, json, fetched, forecast_area>>

NextForecast == Return \/ NewForecast \/ TemperatureForecast

SpecForecast == InitForecast /\ [][NextForecast]_vars

\* the office a request is to be made for
Redirected(office) ==
    IF office = <<"0", "1", "4", "0", "3", "0">> THEN <<"0", "1", "4", "1", "0", "0">>
    ELSE IF office = <<"4", "6", "0", "0", "4", "0">> THEN <<"4", "6", "0", "1", "0", "0">>
    ELSE office

C20_PeakIndicesByHour ==
    (call.op = "temperature_forecast" /\ ret.some) =>
        LET h == call.hour
            low == IF h \in 5..16 THEN 2 ELSE 0
            high == IF h \in 5..16 THEN 0 ELSE 1
            series == json.v.first.timeSeries2
            list == series.areas.a
            m == CHOOSE i \in DOMAIN list :
                     /\ list[i].area.code = call.area_code
                     /\ \A j \in 1..(i - 1) : list[j].area.code # call.area_code
        IN /\ ret.v.lowest = list[m].temps[low + 1]
           /\ ret.v.lowest_datetime = series.timeDefines.a[low + 1]
           /\ ret.v.highest = list[m].temps[high + 1]
           /\ ret.v.highest_datetime = series.timeDefines.a[high + 1]
           /\ ret.v.area_name = list[m].area.name
           /\ ret.v.area_code = call.area_code
           /\ ret.v.area_code = list[m].area.code

\* at 16 h, the second of two areas with three temps each
C20_Witness ==
    /\ call.op = "temperature_forecast"
    /\ call.hour = 16
    /\ call.area_code = <<"2">>
    /\ ret = Some([report_datetime |-> ReportTime,
                   area_name |-> <<"n", "2">>,
                   area_code |-> <<"2">>,
                   lowest |-> <<"2", "2">>,
                   lowest_datetime |-> <<"T", "2">>,
                   highest |-> <<"2", "0">>,
                   highest_datetime |-> <<"T", "0">>])


\* the parts of the stored document that temperature_forecast reads
HasSeries ==
    /\ json.v.t = "array"
    /\ json.v.first.t = "object"
    /\ json.v.first.timeSeries2.t = "object"
    /\ json.v.first.timeSeries2.timeDefines.t = "array"
    /\ json.v.first.timeSeries2.areas.t = "array"

HasReportTime ==
    /\ json.v.t = "array"
    /\ json.v.first.t = "object"
    /\ json.v.first.reportDatetime.t = "string"

SeriesTimes == json.v.first.timeSeries2.timeDefines.a

SeriesAreas == json.v.first.timeSeries2.areas.a

\* the indices of the areas of the series that carry the code
AreasOfCode(code) == {i \in DOMAIN SeriesAreas : SeriesAreas[i].area.code = code}

FirstOfCode(code) == CHOOSE i \in AreasOfCode(code) : \A j \in AreasOfCode(code) : i <= j

PeakFields ==
    {"report_datetime", "area_name", "area_code", "lowest", "lowest_datetime",
     "highest", "highest_datetime"}

TwoPointSeries ==
    /\ HasSeries
    /\ Len(SeriesTimes) = 2
    /\ \A i \in DOMAIN SeriesAreas : Len(SeriesAreas[i].temps) = 2

\* C30: from a document whose temperature series has exactly two
\* time-defines and two temps per area, temperature_forecast returns absent
\* at every local hour of 5..16 for every area code (the low index 2 is out
\* of range), and at every other hour returns a value for an area code of
\* the series (the document carrying its report time).
C30_TwoPointSeriesAbsentByDay ==
    (call.op = "temperature_forecast" /\ TwoPointSeries) =>
        /\ call.hour \in 5..16 => ret = None
        /\ ~(2 + 1 \in DOMAIN SeriesTimes)
        /\ (call.hour \notin 5..16 /\ HasReportTime /\ AreasOfCode(call.area_code) # {})
               => ret.some

\* at noon, for the code of the only area of a two-point series
C30_Witness ==
    /\ call.op = "temperature_forecast"
    /\ call.hour = 12
    /\ call.area_code = <<"1">>
    /\ TwoPointSeries /\ HasReportTime
    /\ Len(SeriesAreas) = 1
    /\ AreasOfCode(<<"1">>) = {1}
    /\ ret = None


\* C28: an Amedas::update that fails at any step (the latest time cannot be
\* fetched, its text is no timestamp, the observation document cannot be
\* fetched or decoded) returns the error of that step and leaves
\* amedas_code, data and latest_time as they were before the call; an
\* update made afterwards, answered with a well-formed time other than the
\* stored one and with a document, requests the document and succeeds.
C28_FailedUpdateChangesNothing ==
    call.op = "update" =>
        LET old == call.self.v
            time == get_latest_time(call.net)
            url == create_amedas_url(old.amedas_code, time.v)
        IN /\ ~call.net.latest_time.ok =>
                 /\ ~ret.ok /\ ret.err = "ReqwestError"
                 /\ ret.requests = <<AMEDAS_UPDATE>>
           /\ (call.net.latest_time.ok /\ time.v # old.latest_time /\ ~url.ok) =>
                 /\ ~ret.ok /\ ret.err = "ChronoParseError"
                 /\ ret.requests = <<AMEDAS_UPDATE>>
           /\ (/\ call.net.latest_time.ok /\ time.v # old.latest_time /\ url.ok
               /\ ~call.net.data.ok) =>
                 /\ ~ret.ok /\ ret.err = "ReqwestError"
                 /\ ret.requests = <<AMEDAS_UPDATE, url.url>>
           /\ ~ret.ok =>
                 /\ amedas = call.self
                 /\ amedas.v.amedas_code = old.amedas_code
                 /\ amedas.v.data = old.data
                 /\ amedas.v.latest_time = old.latest_time
                 /\ \A net \in Nets :
                        (/\ net.latest_time.ok /\ net.data.ok
                         /\ get_latest_time(net).v \in LatestTimes
                         /\ get_latest_time(net).v # old.latest_time) =>
                            LET later == update(amedas.v, net)
                            IN /\ later.ok /\ later.v = TRUE
                               /\ Len(later.requests) = 2
                               /\ later.self.data = net.data.json
                               /\ later.self.latest_time = get_latest_time(net).v

\* the time is new and well-formed, the observation document does not arrive
C28_Witness ==
    /\ call.op = "update"
    /\ call.net.latest_time.ok
    /\ Published(call) \in LatestTimes
    /\ Published(call) # call.self.v.latest_time
    /\ ~call.net.data.ok
    /\ ~ret.ok /\ ret.err = "ReqwestError"
    /\ Len(ret.requests) = 2
    /\ amedas = call.self

\* C29: once Amedas::new has returned a station, and after every update
\* since, successful, unchanged or failed, amedas_code is the code given at
\* construction, and data is the document that arrived last, which was
\* requested at the URL made of that code and of the stored latest_time;
\* an update leaves data and latest_time both as they were or replaces both.
C29_SnapshotMatchesStamp ==
    /\ amedas.some =>
          /\ fetched.some
          /\ amedas.v.amedas_code = fetched.v.code
          /\ amedas.v.data = fetched.v.doc
          /\ amedas.v.latest_time = fetched.v.time
          /\ create_amedas_url(fetched.v.code, amedas.v.latest_time)
                 = [ok |-> TRUE, url |-> fetched.v.url]
    /\ call.op = "new" => (amedas.some <=> ret.ok)
    /\ (call.op = "new" /\ ret.ok) => amedas.v.amedas_code = call.amedas_code
    /\ call.op = "update" =>
          \/ /\ amedas.v.data = call.self.v.data
             /\ amedas.v.latest_time = call.self.v.latest_time
             /\ ~(ret.ok /\ ret.v = TRUE)
          \/ /\ ret.ok /\ ret.v = TRUE
             /\ amedas.v.latest_time # call.self.v.latest_time
             /\ amedas.v.latest_time = Published(call)
             /\ amedas.v.data = call.net.data.json

\* a second successful update: the station holds the document of the later
\* time, which differs from the one before
C29_Witness ==
    /\ call.op = "update"
    /\ ret.ok /\ ret.v = TRUE
    /\ amedas.v.data # call.self.v.data
    /\ amedas.v.latest_time
          = Stamp(<<2025, 10, 10>>, 2, <<59, 59>>, <<"+", "0", "9", ":", "0", "0">>)
    /\ call.self.v.latest_time
          = Stamp(<<2025, 10, 10>>, 3, <<15, 35>>, <<"+", "0", "9", ":", "0", "0">>)
    /\ fetched.v.doc = amedas.v.data


\* the record one level above the record o, read from the tables: absent
\* for no record, at Center, for an unset parent code and for a parent code
\* that is no key of the table one level up
StepUp(o) ==
    IF ~o.some THEN None
    ELSE IF o.v.class = "Center" \/ ~o.v.area.parent.some THEN None
    ELSE LET up == OneUp(o.v.class)
             code == o.v.area.parent.v
         IN IF code \in DOMAIN TableAt(up)
            THEN Some([area |-> TableAt(up)[code], class |-> up, code |-> code])
            ELSE None

RECURSIVE StepsUp(_, _)
StepsUp(o, k) == IF k = 0 THEN o ELSE StepsUp(StepUp(o), k - 1)

\* Areas::parent applied k times, an absent result staying absent
RECURSIVE ParentTimes(_, _)
ParentTimes(o, k) ==
    IF k = 0 THEN o
    ELSE ParentTimes(IF o.some THEN parent(o.v) ELSE None, k - 1)

\* C25: for a record r and a target class k levels above r's, 1 <= k <= 4,
\* ancestor(r, target) is parent applied k times to r: the record reached by
\* resolving each parent code in the table one level up, and absent iff a
\* parent code on the way is unset or no key of that table.  The Office
\* ancestor of a Class20 record is the parent of the parent of its parent.
C25_AncestorIsIteratedParent ==
    (call.op = "ancestor" /\ Level(call.area.class) - Level(call.class) \in 1..4) =>
        LET k == Level(call.area.class) - Level(call.class)
            r == Some(call.area)
        IN /\ ret.ret = ParentTimes(r, k)
           /\ ret.ret = StepsUp(r, k)
           /\ ret.ret = None <=> \E j \in 1..k : StepsUp(r, j) = None
           /\ (call.area.class = "Class20" /\ call.class = "Office") =>
                  LET p1 == parent(call.area)
                      p2 == IF p1.some THEN parent(p1.v) ELSE None
                      p3 == IF p2.some THEN parent(p2.v) ELSE None
                  IN ret.ret = p3

\* a Class20 record whose chain resolves up to its office, in three steps
C25_Witness ==
    /\ call.op = "ancestor"
    /\ call.area.class = "Class20"
    /\ call.class = "Office"
    /\ ret.calls = 3
    /\ ret.ret.some
    /\ ret.ret.v.code \in DOMAIN offices
    /\ ret.ret = parent(parent(parent(call.area).v).v)

\* C26: the classes form the chain Center, Office, Class10, Class15, Class20.
\* parent is absent for Center only and is otherwise the class one place
\* before; child is absent for Class20 only and is otherwise the class one
\* place after; child undoes parent and parent undoes child; no class is its
\* own parent or child.
C26_ClassChain ==
    /\ call.op = "class_parent" =>
          /\ ret = None <=> call.class = "Center"
          /\ ret.some =>
                /\ Level(ret.v) = Level(call.class) - 1
                /\ ClassChild(ret.v) = Some(call.class)
                /\ ret.v # call.class
    /\ call.op = "class_child" =>
          /\ ret = None <=> call.class = "Class20"
          /\ ret.some =>
                /\ Level(ret.v) = Level(call.class) + 1
                /\ ClassParent(ret.v) = Some(call.class)
                /\ ret.v # call.class

C26_Witness ==
    /\ call.op = "class_child"
    /\ call.class = "Center"
    /\ ret = Some("Office")
    /\ ClassParent("Office") = Some("Center")


\* C27: in the list that search returns the entries stand level by level in
\* the order Center, Office, Class10, Class15, Class20, no entry of a higher
\* level after one of a lower level, and the occurrences of one record (for
\* its code, its name, its English name, in this order of the tests) are
\* next to each other.
C27_SearchGroupedByLevel ==
    call.op = "search" =>
        LET list == ret.list
        IN /\ \A i, j \in DOMAIN list :
                 i < j => Level(list[i].class) <= Level(list[j].class)
           /\ \A i, j \in DOMAIN list :
                 (i < j /\ list[i] = list[j]) => \A m \in i..j : list[m] = list[i]
           /\ \A i, j \in DOMAIN list :
                 (i < j /\ list[i].class = list[j].class /\ list[i].code = list[j].code)
                    => \A m \in i..j : list[m] = list[i]

\* a record found three times, followed by a record of a lower level
C27_Witness ==
    /\ call.op = "search"
    /\ Len(ret.list) = 4
    /\ ret.list[1] = ret.list[2] /\ ret.list[2] = ret.list[3]
    /\ ret.list[1].class = "Office"
    /\ ret.list[4].class = "Class20"


-----------------------------------------------------------------------------
(* The observation sites of the forecast areas: ForecastArea of            *)
(* src/src/forecast_area.rs.  The value held is the map `offices` with the *)
(* iteration order `iter` of that HashMap, which stays the same while the   *)
(* map is not changed.  A JSON object is a record tagged "object" with the *)
(* function `m` from its keys to their values.                             *)

JsonObject(m) == [t |-> "object", m |-> m]

\* a body that is no JSON text
NotJson == [t |-> "text"]

\* struct AmedasObservationSite
AmedasObservationSite(class10, stations, class20) ==
    [class10 |-> class10, amedas |-> stations, class20 |-> class20]

\* serde_json::from_value::<ForecastArea>: every key of the object is an
\* office, its value a list of sites
from_value_ForecastArea(value) ==
    IF value.t = "object" /\ \A k \in DOMAIN value.m : value.m[k].t = "array"
    THEN Some([k \in DOMAIN value.m |-> value.m[k].a])
    ELSE None

\* ForecastArea::new, `order` the iteration order the new map gets
forecast_area_new(net, order) ==
    IF ~net.ok \/ net.body = NotJson
    THEN Returned([ok |-> FALSE, err |-> "reqwest::Error"])
    ELSE LET area == from_value_ForecastArea(net.body)
         IN IF ~area.some THEN Panic
            ELSE Returned([ok |-> TRUE, v |-> [offices |-> area.v, iter |-> order]])

\* o.amedas.iter().any(|c| c == amedas_code)
any(stations, amedas_code) == \E j \in DOMAIN stations : stations[j] = amedas_code

\* offices.iter().find(..): the first site of the list that lists the station
find_site(sites, amedas_code) ==
    LET hits == {i \in DOMAIN sites : any(sites[i].amedas, amedas_code)}
    IN IF hits = {} THEN None
       ELSE Some(sites[CHOOSE i \in hits : \A j \in hits : i <= j])

RECURSIVE OfficeByAmedasLoop_last(_, _, _)
OfficeByAmedasLoop_last(self, i, amedas_code) ==
    IF i > Len(self.iter) THEN None
    ELSE LET rest == OfficeByAmedasLoop_last(self, i + 1, amedas_code)
         IN IF rest.some THEN rest
            ELSE IF find_site(self.offices[self.iter[i]], amedas_code).some
            THEN Some(self.iter[i])
            ELSE None

\* the loop of get_office_by_amedas from the i-th office of the iteration on
RECURSIVE OfficeByAmedasLoop(_, _, _)
OfficeByAmedasLoop(self, i, amedas_code) ==
    IF i > Len(self.iter) THEN None
    ELSE IF find_site(self.offices[self.iter[i]], amedas_code).some
    THEN Some(self.iter[i])
    ELSE OfficeByAmedasLoop(self, i + 1, amedas_code)

get_office_by_amedas_last(self, amedas_code) == OfficeByAmedasLoop_last(self, 1, amedas_code)

\* ForecastArea::get_office_by_amedas
get_office_by_amedas(self, amedas_code) == OfficeByAmedasLoop(self, 1, amedas_code)

\* the inner loop of get_amedas_by_class10 over the sites of one office
RECURSIVE SitesLoop(_, _, _)
SitesLoop(sites, j, code) ==
    IF j > Len(sites) THEN None
    ELSE IF sites[j].class10 = code THEN Some(sites[j].amedas)
    ELSE SitesLoop(sites, j + 1, code)

\* the outer loop of get_amedas_by_class10
RECURSIVE AmedasByClass10Loop(_, _, _)
AmedasByClass10Loop(self, i, code) ==
    IF i > Len(self.iter) THEN None
    ELSE LET found == SitesLoop(self.offices[self.iter[i]], 1, code)
         IN IF found.some THEN found ELSE AmedasByClass10Loop(self, i + 1, code)

\* ForecastArea::get_amedas_by_class10
get_amedas_by_class10(self, code) == AmedasByClass10Loop(self, 1, code)

-----------------------------------------------------------------------------
(* The station table, station_information of src/src/amedas.rs, and the    *)
(* construction of the area hierarchy, Areas::new of src/src/area.rs.      *)

\* struct AmedasStation as serde decodes it: type, kjName and alt stand for
\* the eight fields
AmedasStation(entry) ==
    [station_type |-> entry.type, kanji_name |-> entry.kjName, alt |-> entry.alt]

\* response.json::<HashMap<String, AmedasStation>>()
json_Stations(body) ==
    IF /\ body.t = "object"
       /\ \A k \in DOMAIN body.m :
             /\ body.m[k].t = "object"
             /\ {"type", "kjName", "alt"} \subseteq DOMAIN body.m[k]
    THEN Some([k \in DOMAIN body.m |-> AmedasStation(body.m[k])])
    ELSE None

station_information_default(amedas_id, net) ==
    IF ~net.ok THEN [ok |-> FALSE, err |-> "ReqwestError"]
    ELSE LET stations == json_Stations(net.body)
         IN IF ~stations.some THEN [ok |-> FALSE, err |-> "ReqwestError"]
            ELSE IF amedas_id \in DOMAIN stations.v
            THEN [ok |-> TRUE, v |-> stations.v[amedas_id]]
            ELSE [ok |-> TRUE,
                  v |-> [station_type |-> << >>, kanji_name |-> << >>, alt |-> 0]]

\* station_information
station_information(amedas_id, net) ==
    IF ~net.ok THEN [ok |-> FALSE, err |-> "ReqwestError"]
    ELSE LET stations == json_Stations(net.body)
         IN IF ~stations.some THEN [ok |-> FALSE, err |-> "ReqwestError"]
            ELSE IF amedas_id \in DOMAIN stations.v
            THEN [ok |-> TRUE, v |-> stations.v[amedas_id]]
            ELSE [ok |-> FALSE, err |-> "NoData",
                  message |-> amedas_id \o <<" not found">>]

AreaTables == {"centers", "offices", "class10s", "class15s", "class20s"}

\* serde_json::from_value::<Areas>
from_value_Areas(value) ==
    IF /\ value.t = "object"
       /\ AreaTables \subseteq DOMAIN value.m
       /\ \A k \in AreaTables : value.m[k].t = "object"
    THEN Some([k \in AreaTables |-> value.m[k].m])
    ELSE None

\* Areas::new
areas_new(net) ==
    IF ~net.ok \/ net.body = NotJson
    THEN Returned([ok |-> FALSE, err |-> "reqwest::Error"])
    ELSE LET areas_ == from_value_Areas(net.body)
         IN IF ~areas_.some THEN Panic
            ELSE Returned([ok |-> TRUE, v |-> areas_.v])

-----------------------------------------------------------------------------
(* The forecast_area.json documents the server may answer with *)

StationIds == {<<"5">>, <<"7">>, <<"9">>}

Class10Codes == {<<"3">>, <<"4">>, <<"6">>}

\* the lists of sites of an office: none; one site of one or two stations;
\* two sites of two class10 codes; two sites of one class10 code, the first
\* without stations; a site of the other class10 code
SiteLists ==
    {<< >>,
     <<AmedasObservationSite(<<"3">>, <<<<"5">>>>, <<"a">>)>>,
     <<AmedasObservationSite(<<"3">>, <<<<"5">>, <<"7">>>>, <<"a">>)>>,
     <<AmedasObservationSite(<<"4">>, <<<<"7">>>>, <<"b">>),
       AmedasObservationSite(<<"3">>, <<<<"5">>>>, <<"a">>)>>,
     <<AmedasObservationSite(<<"3">>, << >>, <<"a">>),
       AmedasObservationSite(<<"3">>, <<<<"7">>>>, <<"b">>)>>,
     <<AmedasObservationSite(<<"4">>, <<<<"5">>>>, <<"b">>)>>}

\* well-shaped documents over some of the office codes, and documents of
\* another shape: null, an array, an office whose value is no list
ForecastAreaDocs ==
    {JsonObject([k \in DOMAIN f |-> JsonArray(f[k])]) :
        f \in UNION {[S -> SiteLists] : S \in SUBSET Codes}}
    \cup {Null, JsonArray(<< >>), JsonObject([k \in {<<"1">>} |-> Null])}

Answers(docs) ==
    {RequestFailed, [ok |-> TRUE, body |-> NotJson]} \cup {[ok |-> TRUE, body |-> d] : d \in docs}

\* the keys of the map a document decodes to
OfficeKeys(net) ==
    IF net.ok /\ net.body # NotJson /\ from_value_ForecastArea(net.body).some
    THEN DOMAIN from_value_ForecastArea(net.body).v
    ELSE {}

\* amedastable.json: tables over some of the stations 5 and 7, and documents
\* of another shape: null, an array, a station that is null, a station
\* without its names
StationEntries ==
    {[t |-> "object", type |-> <<"A">>, kjName |-> <<"k", "5">>, alt |-> 5],
     [t |-> "object", type |-> <<"C">>, kjName |-> <<"k", "7">>, alt |-> 7]}

StationDocs ==
    {JsonObject(f) : f \in UNION {[S -> StationEntries] : S \in SUBSET {<<"5">>, <<"7">>}}}
    \cup {Null, JsonArray(<< >>), JsonObject([k \in {<<"5">>} |-> Null]),
          JsonObject([k \in {<<"5">>} |-> [t |-> "object", alt |-> 5]])}

\* area.json: the five tables, empty or with one record each, and documents
\* of another shape: null, an array, an object without the tables, one
\* whose class20s is no object
AreaJson(table) == JsonObject([k \in AreaTables |-> JsonObject(table)])

AreaDocs ==
    {AreaJson(f) : f \in UNION {[S -> NavRaws] : S \in SUBSET {<<"1">>}}}
    \cup {Null, JsonArray(<< >>), JsonObject([k \in {"centers"} |-> JsonObject(<< >>)]),
          JsonObject([k \in AreaTables |->
                         IF k = "class20s" THEN Null ELSE JsonObject(<< >>)])}

\* the answers to the request for an observation document, one of them a
\* JSON text of another structure
Undecodable == [ok |-> TRUE, body |-> JsonArray(<< >>)]

InitFetch == NoAreas /\ Unfetched

\* the caller keeps the ForecastArea that new returns
ForecastAreaNew ==
    \E net \in Answers(ForecastAreaDocs) :
        \E order \in Orders(OfficeKeys(net)) :
            /\ call = Idle
            /\ ~forecast_area.some
            /\ call' = [op |-> "forecast_area_new", net |-> net]
            /\ ret' = forecast_area_new(net, order)
            /\ forecast_area' = IF ~ret'.panic /\ ret'.v.ok THEN Some(ret'.v.v)
                                ELSE forecast_area
            /\ UNCHANGED <<tables, iter, amedas, json, fetched>>

GetOfficeByAmedas ==
    \E amedas_code \in StationIds :
        /\ call = Idle
        /\ forecast_area.some
        /\ call' = [op |-> "get_office_by_amedas", amedas_code |-> amedas_code]
        /\ ret' = get_office_by_amedas(forecast_area.v, amedas_code)
        /\ UNCHANGED <<tables, iter, amedas, json, fetched, forecast_area>>

GetAmedasByClass10 ==
    \E code \in Class10Codes :
        /\ call = Idle
        /\ forecast_area.some
        /\ call' = [op |-> "get_amedas_by_class10", code |-> code]
        /\ ret' = get_amedas_by_class10(forecast_area.v, code)
        /\ UNCHANGED <<tables, iter, amedas, json, fetched, forecast_area>>

StationInformation ==
    \E amedas_id \in StationIds, net \in Answers(StationDocs) :
        /\ call = Idle
        /\ call' = [op |-> "station_information", amedas_id |-> amedas_id, net |-> net]
        /\ ret' = station_information(amedas_id, net)
        /\ UNCHANGED <<tables, iter, amedas, json, fetched, forecast_area>>

\* the caller is handed the Areas; the tables of the model are those of the
\* Areas it works with
AreasNew ==
    \E net \in Answers(AreaDocs) :
        /\ call = Idle
        /\ call' = [op |-> "areas_new", net |-> net]
        /\ ret' = areas_new(net)
        /\ UNCHANGED <<tables, iter, amedas, json, fetched, forecast_area>>

AmedasData ==
    \E amedas_code \in StationCodes, time \in LatestTimes,
       data \in DataAnswers \cup {Undecodable} :
        /\ call = Idle
        /\ call' = [op |-> "amedas_data",
                    url |-> create_amedas_url(amedas_code, time).url,
                    net |-> [latest_time |-> RequestFailed, data |-> data]]
        /\ ret' = amedas_data(call'.url, call'.net)
        /\ UNCHANGED <<tables, iter, amedas, json, fetched, forecast_area>>

\* on a JmaForecast that holds the document `self`
GetTemperaturePoints ==
    \E self \in ForecastDocs :
        /\ call = Idle
        /\ call' = [op |-> "get_temperature_points", self |-> self]
        /\ ret' = get_temperature_points(self)
        /\ UNCHANGED <<tables, iter, amedas, json, fetched, forecast_area>>

\* the caller asks the same question once more
AskAgain ==
    /\ call.op \in {"get_office_by_amedas", "get_amedas_by_class10"}
    /\ call' = call
    /\ ret' = IF call.op = "get_office_by_amedas"
              THEN get_office_by_amedas(forecast_area.v, call.amedas_code)
              ELSE get_amedas_by_class10(forecast_area.v, call.code)
    /\ UNCHANGED <<tables, iter, amedas, json, fetched, forecast_area>>

NextFetch ==
    \/ Return \/ ForecastAreaNew \/ GetOfficeByAmedas \/ GetAmedasByClass10 \/ AskAgain
    \/ StationInformation \/ AreasNew \/ AmedasData \/ GetTemperaturePoints

SpecFetch == InitFetch /\ [][NextFetch]_vars

\* office o has a site that lists the station
Lists(o, station) ==
    \E i \in DOMAIN forecast_area.v.offices[o] :
        \E j \in DOMAIN forecast_area.v.offices[o][i].amedas :
            forecast_area.v.offices[o][i].amedas[j] = station

\* the place of office o in the scan
ScanIndex(o) == CHOOSE i \in DOMAIN forecast_area.v.iter : forecast_area.v.iter[i] = o

\* the sites with the class10 code, as <<office, index in its list>>
SitesOfClass10(code) ==
    {p \in (DOMAIN forecast_area.v.offices) \X (1..2) :
        /\ p[2] \in DOMAIN forecast_area.v.offices[p[1]]
        /\ forecast_area.v.offices[p[1]][p[2]].class10 = code}

\* C24: get_office_by_amedas(station) returns an office iff some site of
\* some office lists the station; the office returned has a site that lists
\* it and is the first such office of the scan of the map, so that a call
\* repeated gives the same office also for a station listed under two
\* offices.  get_amedas_by_class10(code) returns the stations of a site
\* whose class10 is code, and absent when there is none.
C24_OfficeAndStationsLookup ==
    [][/\ call'.op = "get_office_by_amedas" =>
            LET station == call'.amedas_code
                listing == {o \in DOMAIN forecast_area.v.offices : Lists(o, station)}
            IN /\ ret'.some <=> listing # {}
               /\ ret'.some =>
                     /\ ret'.v \in listing
                     /\ \A o \in listing : ScanIndex(ret'.v) <= ScanIndex(o)
       /\ call'.op = "get_amedas_by_class10" =>
            /\ ret'.some <=> SitesOfClass10(call'.code) # {}
            /\ ret'.some =>
                  \E p \in SitesOfClass10(call'.code) :
                      ret'.v = forecast_area.v.offices[p[1]][p[2]].amedas
       /\ (call' = call /\ forecast_area' = forecast_area) => ret' = ret]_vars

\* station 5 is listed under both offices; the one scanned first is returned
C24_Witness ==
    /\ call.op = "get_office_by_amedas"
    /\ call.amedas_code = <<"5">>
    /\ forecast_area.some
    /\ Len(forecast_area.v.iter) = 2
    /\ Lists(<<"1">>, <<"5">>) /\ Lists(<<"2">>, <<"5">>)
    /\ forecast_area.v.iter[1] = <<"2">>
    /\ ret = Some(<<"2">>)


\* the station table an answer carries, when it has the structure of one
TableOfStations(net) ==
    IF /\ net.ok
       /\ net.body.t = "object"
       /\ \A k \in DOMAIN net.body.m :
             /\ net.body.m[k].t = "object"
             /\ {"type", "kjName", "alt"} \subseteq DOMAIN net.body.m[k]
    THEN Some(net.body.m)
    ELSE None

\* C23: station_information(id) returns the metadata of the station when id
\* is a key of the table fetched, and otherwise fails with NoData, never
\* with an empty or a default station; a transport failure is reported as
\* ReqwestError and never as NoData, and NoData is reported only of a table
\* that arrived.
C23_StationOrNoData ==
    call.op = "station_information" =>
        LET table == TableOfStations(call.net)
            id == call.amedas_id
        IN /\ ~call.net.ok => (~ret.ok /\ ret.err = "ReqwestError")
           /\ (table.some /\ id \in DOMAIN table.v) =>
                 /\ ret.ok
                 /\ ret.v.station_type = table.v[id].type
                 /\ ret.v.kanji_name = table.v[id].kjName
                 /\ ret.v.alt = table.v[id].alt
           /\ (table.some /\ id \notin DOMAIN table.v) =>
                 /\ ~ret.ok /\ ret.err = "NoData"
                 /\ ret.message = id \o <<" not found">>
           /\ ret.ok => (table.some /\ id \in DOMAIN table.v)
           /\ (~ret.ok /\ ret.err = "NoData") => (call.net.ok /\ table.some)
           /\ (~ret.ok /\ ret.err = "ReqwestError") => ~table.some

\* station 9 is asked of a table that holds the stations 5 and 7
C23_Witness ==
    /\ call.op = "station_information"
    /\ call.amedas_id = <<"9">>
    /\ TableOfStations(call.net).some
    /\ DOMAIN TableOfStations(call.net).v = {<<"5">>, <<"7">>}
    /\ ~ret.ok /\ ret.err = "NoData"

\* the answer is a JSON text that has not the structure the call expects
MismatchedAnswer ==
    /\ call.net.ok
    /\ call.net.body # NotJson
    /\ CASE call.op = "areas_new" -> ~from_value_Areas(call.net.body).some
         [] call.op = "forecast_area_new" -> ~from_value_ForecastArea(call.net.body).some
         [] call.op = "station_information" -> ~json_Stations(call.net.body).some

\* the document held has no list of temperature points at its place
MismatchedForecast ==
    LET doc == call.self
    IN ~(/\ doc.t = "array"
         /\ doc.first.t = "object"
         /\ doc.first.timeSeries2.t = "object"
         /\ doc.first.timeSeries2.areas.t = "array")

\* C22: a response whose JSON has not the expected structure comes back to
\* the caller as an error value and never as a panic, from Areas::new,
\* ForecastArea::new, amedas_data, station_information and
\* JmaForecast::get_temperature_points.
C22_MismatchIsErrorValue ==
    /\ (call.op \in {"areas_new", "forecast_area_new"} /\ MismatchedAnswer) =>
          (~ret.panic /\ ~ret.v.ok)
    /\ (call.op = "station_information" /\ MismatchedAnswer) => ~ret.ok
    /\ (call.op = "amedas_data" /\ call.net.data = Undecodable) => ~ret.ok
    /\ (call.op = "get_temperature_points" /\ MismatchedForecast) => ~ret.panic
    /\ call.op \in {"areas_new", "forecast_area_new", "get_temperature_points"} =>
          ~ret.panic

\* What the five calls do with such a response: amedas_data and
\* station_information return the error ReqwestError; Areas::new,
\* ForecastArea::new and get_temperature_points panic in unwrap().
MismatchAsCoded ==
    /\ (call.op \in {"areas_new", "forecast_area_new"} /\ MismatchedAnswer) =>
          ret = Panic
    /\ (call.op = "station_information" /\ MismatchedAnswer) =>
          ret = [ok |-> FALSE, err |-> "ReqwestError"]
    /\ (call.op = "amedas_data" /\ call.net.data = Undecodable) =>
          ret = [ok |-> FALSE, err |-> "ReqwestError"]
    /\ (call.op = "get_temperature_points" /\ MismatchedForecast) => ret = Panic
    /\ (call.op \in {"areas_new", "forecast_area_new"} /\ ~MismatchedAnswer) =>
          ~ret.panic
    /\ (call.op = "get_temperature_points" /\ ~MismatchedForecast) => ~ret.panic

====
